---------------------------- MODULE Spec2Model ----------------------------
(***************************************************************************)
(* A model of the Arti directory manager (tor-dirmgr/src/lib.rs), of the   *)
(* onion-service circuit pool (crates/tor-circmgr/src/hspool.rs) and of    *)
(* the task scheduler the pool's launcher runs on                          *)
(* (crates/tor-rtcompat/src/scheduler.rs).                                 *)
(*                                                                         *)
(* Time is counted in whole units.  Directory documents, certificates and  *)
(* microdescriptors are identified by small values; what a document says   *)
(* (lifetime, signature, listed microdescriptors) is a function of its id. *)
(***************************************************************************)
EXTENDS Integers, Sequences, FiniteSets, Bags, TLC

VARIABLES
    now,      \* the wall clock (SystemTime::now)
    netdir,   \* DirMgr.netdir: the shared Option<Arc<NetDir>>
    store,    \* DirMgr.store: the sqlite cache
    fd,       \* one call of DirMgr::fetch_directory: its position and locals
    ld,       \* one call of DirMgr::load_directory: its position and locals
    rd,       \* the last DirMgr::netdir() call of a consumer
    pool,     \* HsCircPool.pool: how many circuits of each kind it holds
    hs_nd,    \* the NetDirProvider's NetDir: its relays, and whether it is timely
    ev,       \* remove_unusable_circuits: the event waiting in its stream, the last handled
    launcher_handle,  \* whether HsCircPool.launcher_handle is initialized
    sched,    \* the launcher's TaskSchedule
    ln,       \* launch_hs_circuits_as_needed: its position and locals
    tk,       \* the last take_or_launch_stub_circuit call
    ex,       \* a get_or_launch_specific call that is extending its circuit
    fam,      \* one call of DirMgr::fetch_additional_microdescs: its position and locals
    cell,     \* a relay cell: the message, its encoding and what decoding yields
    ring,     \* a consensus's times and SRVs, and the ring parameters computed from them
    sc,       \* a TaskSchedule and its handle in isolation, with what its polls yielded
    db,       \* a SqliteStore in isolation: its tables, its blob files and its last call
    dl,       \* one call of download_mds: its chunks, its requests in flight and what it got
    lk,       \* the store mutex and the NetDir lock, and the tasks that take them
    sk,       \* one SOCKS connection: its handler, its two copy tasks, the client and the Tor stream
    slot,       \* the NetDir slot of the DirMgr behind its RwLock, its writers and a reader
    mdb        \* the Microdescs table of the cache, and the clock of its calls

dirVars == <<now, netdir, store, fd, ld, rd>>

hsVars == <<pool, hs_nd, ev, launcher_handle, sched, ln, tk, ex>>

\* The parts that stand alone and were modelled last.
lateVars == <<db, dl, lk, sk, slot, mdb>>

pureVars == <<cell, ring, sc, lateVars>>

vars == <<dirVars, hsVars, fam, pureVars>>

\* What the steps of fetch_directory, load_directory and netdir leave alone.
notDir == <<hsVars, fam, pureVars>>

\* What the circuit pool's steps leave alone.
notHs == <<dirVars, fam, pureVars>>

(***************************************************************************)
(* Bounds of the model.                                                    *)
(***************************************************************************)
MaxTime == 3
MaxDocs == 3

(***************************************************************************)
(* Directory documents.                                                    *)
(***************************************************************************)
Docs == 1..MaxDocs

\* The consensus lifetime, in time units (valid_until - valid_after).
ConsensusLifetime == 2

ValidAfter(d) == d - 1

ValidUntil(d) == ValidAfter(d) + ConsensusLifetime

\* Whether the consensus's signatures verify against the authorities' certs.
SigOk(d) == d % 3 # 0

Authorities == {"a1", "a2"}

\* "x" is the key of a signer that is not a configured authority.
KeyIds == Authorities \cup {"x"}

Signers(d) == KeyIds

MDs == {"m1", "m2"}

ListedMds(d) == MDs

NoNetDir == [doc |-> 0, mds |-> {}]

\* Timebound::check_valid_now on a consensus.
ValidNow(d) == ValidAfter(d) <= now /\ now <= ValidUntil(d)

(***************************************************************************)
(* The cache (SqliteStore), as DirMgr uses it.                             *)
(***************************************************************************)
\* store_consensus writes lifetime.valid_after() into the valid_until column.
StoredValidUntil(d) == ValidAfter(d)

\* DROP_OLD_CONSENSUSES: "valid_until < datetime('now','-2 days')".
TwoDays == 2

ConsWith(pending) ==
    {d \in Docs : store.cons[d] = IF pending THEN "pending" ELSE "usable"}

\* SqliteStore::latest_consensus: FIND_CONSENSUS, 0 for no row.
LatestConsensus(pending) ==
    IF ConsWith(pending) = {} THEN 0
    ELSE CHOOSE d \in ConsWith(pending) :
            \A e \in ConsWith(pending) : StoredValidUntil(e) <= StoredValidUntil(d)

\* SqliteStore::store_consensus(meta, pending = true, text).
StoreConsensus(s, d) == [s EXCEPT !.cons[d] = "pending"]

\* SqliteStore::mark_consensus_usable: an UPDATE of the rows with that digest.
MarkConsensusUsable(s, d) ==
    IF s.cons[d] = "absent" THEN s ELSE [s EXCEPT !.cons[d] = "usable"]

\* SqliteStore::expire_all, as far as consensuses go.
ExpireAll(s) ==
    [s EXCEPT !.cons = [d \in Docs |->
        IF StoredValidUntil(d) < now - TwoDays THEN "absent" ELSE s.cons[d]]]

(***************************************************************************)
(* UnvalidatedDir and PartialDir helpers.                                  *)
(***************************************************************************)
\* A prune_certs that retains every certificate.
PruneNothing(certs) == certs

\* UnvalidatedDir::prune_certs.
PruneCerts(certs) == {c \in certs : c \in Authorities}

\* UnvalidatedMDConsensus::key_is_correct: enough certs to check a majority
\* of the authorities' signatures.
KeyIsCorrect(d, certs) ==
    2 * Cardinality(Signers(d) \cap certs) > Cardinality(Authorities)

\* UnvalidatedDir::missing_certs.
MissingCerts(d, certs) ==
    IF KeyIsCorrect(d, PruneCerts(certs)) THEN {}
    ELSE {m \in Signers(d) \ PruneCerts(certs) : m \in Authorities}

\* UnvalidatedMDConsensus::check_signature, called by UnvalidatedDir::advance.
CheckSignature(d, certs) == SigOk(d) /\ KeyIsCorrect(d, certs)

\* PartialNetDir::have_enough_paths.
HaveEnoughPaths(d, mds) == 2 * Cardinality(mds) >= Cardinality(ListedMds(d))

\* load_mds: what a PartialNetDir for d holds after filling from the previous
\* NetDir and from the cache.
LoadMds(d, prev, s) ==
    (IF prev.doc = 0 THEN {} ELSE prev.mds \cap ListedMds(d))
        \cup (s.mds \cap ListedMds(d))

(***************************************************************************)
(* The retry loops' bounds.                                                *)
(***************************************************************************)
n_retries_consensus == 3

\* A retry loop that runs once more than it should.
n_retries_certs_one_more == 3 + 1

n_retries_certs == 3

n_retries_mds == 3

(***************************************************************************)
(* DirMgr::fetch_directory.                                                *)
(*   pc       where the call is                                            *)
(*   doc      the consensus of the UnvalidatedDir / PartialDir (0: none)   *)
(*   certs    UnvalidatedDir.certs                                         *)
(*   mds      the microdescriptors of PartialDir.dir                       *)
(*   attempts the number of iterations the current retry loop has begun    *)
(*   last_err whether last_err is Some                                     *)
(*   sub      the sub-fetch that returned last ("" for none) and how       *)
(*   checked  history: check_signature succeeded with no cert missing      *)
(*   wrote    history: this call wrote the shared NetDir                   *)
(*   result   "" while running, then "ok" or "err"                         *)
(***************************************************************************)
FdIdle ==
    [pc |-> "idle", doc |-> 0, certs |-> {}, mds |-> {}, attempts |-> 0,
     last_err |-> FALSE, sub |-> "", checked |-> FALSE, wrote |-> FALSE,
     result |-> ""]

\* The call returns Err(..): its locals are dropped.
FdErr(sub) ==
    [fd EXCEPT !.pc = "done", !.result = "err", !.sub = sub,
               !.certs = {}, !.mds = {}]

\* A load that takes the cached consensus whatever its lifetime.
NoInfoLoadAnyAge(pending, parse_ok) ==
    IF LatestConsensus(pending) = 0 THEN "same"
    ELSE IF ~parse_ok THEN "err"
    ELSE "new"

\* NoInformation::load(pending): "same", "err" or the cached consensus.
NoInfoLoad(pending, parse_ok) ==
    LET c == LatestConsensus(pending) IN
    IF c = 0 THEN "same"
    ELSE IF ~parse_ok THEN "err"
    ELSE IF ~ValidNow(c) THEN "same"
    ELSE "new"

\* fetch_directory up to the first state: the cached consensus, if asked for.
FetchDirBegin(use_cached_consensus, parse_ok) ==
    /\ fd.pc = "idle"
    /\ LET r == IF use_cached_consensus THEN NoInfoLoad(TRUE, parse_ok) ELSE "same" IN
       fd' = CASE r = "err"  -> [FdIdle EXCEPT !.pc = "done", !.result = "err"]
               [] r = "same" -> [FdIdle EXCEPT !.pc = "fetch_consensus"]
               [] OTHER      -> [FdIdle EXCEPT !.pc = "unval_load",
                                               !.doc = LatestConsensus(TRUE)]
    /\ UNCHANGED <<now, netdir, store, ld, rd, notDir>>

\* One iteration of NoInformation::fetch_consensus: fetch_consensus_once.
\* got = 0: the request, the parse, check_valid_now or the cache write failed.
FetchConsensusOnce(got) ==
    /\ fd.pc = "fetch_consensus"
    /\ fd.attempts < n_retries_consensus
    /\ got \in {0} \cup {d \in Docs : ValidNow(d)}
    /\ IF got = 0
       THEN /\ fd' = [fd EXCEPT !.pc = "sleep_consensus", !.last_err = TRUE,
                                !.attempts = @ + 1]
            /\ store' = store
       ELSE /\ fd' = [fd EXCEPT !.pc = "unval_load", !.doc = got,
                                !.attempts = @ + 1, !.sub = "consensus"]
            /\ store' = StoreConsensus(store, got)
    /\ UNCHANGED <<now, netdir, ld, rd, notDir>>

\* A retry delay after which the loop starts over, forgetting its count.
SleepConsensusStartOver ==
    /\ fd.pc = "sleep_consensus"
    /\ fd' = [fd EXCEPT !.pc = "fetch_consensus", !.attempts = 0]
    /\ UNCHANGED <<now, netdir, store, ld, rd, notDir>>

\* The retry delay of fetch_consensus, then the head of its loop.
SleepConsensus ==
    /\ fd.pc = "sleep_consensus"
    /\ fd' = [fd EXCEPT !.pc = "fetch_consensus"]
    /\ UNCHANGED <<now, netdir, store, ld, rd, notDir>>

\* fetch_consensus after its loop: Err(last_err.unwrap()).
FetchConsensusGiveUp ==
    /\ fd.pc = "fetch_consensus"
    /\ fd.attempts >= n_retries_consensus
    /\ fd' = IF fd.last_err THEN FdErr("consensus")
             ELSE [fd EXCEPT !.pc = "panic"]
    /\ UNCHANGED <<now, netdir, store, ld, rd, notDir>>

\* UnvalidatedDir::load: certificates from the cache; `timely` are those that
\* pass check_valid_now, cert_ok is whether all of them parse and verify.
UnvalLoadCerts(d, timely) == PruneCerts(timely)

UnvalLoad(timely, cert_ok) ==
    /\ fd.pc = "unval_load"
    /\ timely \subseteq (store.certs \cap MissingCerts(fd.doc, {}))
    /\ fd' = IF ~cert_ok /\ store.certs \cap MissingCerts(fd.doc, {}) # {}
             THEN FdErr("")
             ELSE [fd EXCEPT !.pc = "fetch_certs",
                             !.certs = UnvalLoadCerts(fd.doc, timely),
                             !.attempts = 0, !.last_err = FALSE]
    /\ UNCHANGED <<now, netdir, store, ld, rd, notDir>>

\* The certificates of an UnvalidatedDir after fetch_certs_once got
\* `newcerts` for its request of `missing`.
CertsAfterFetch(certs, missing, newcerts) ==
    PruneCerts({c \in certs : c \in missing} \cup newcerts)

\* One iteration of UnvalidatedDir::fetch_certs: fetch_certs_once, then the
\* test of missing_certs.  outcome: "ok", "net_err" or "store_err".
FetchCertsOnce(newcerts, outcome) ==
    /\ fd.pc = "fetch_certs"
    /\ fd.attempts < n_retries_certs
    /\ newcerts \subseteq KeyIds
    /\ outcome \in {"ok", "net_err", "store_err"}
    /\ LET missing == MissingCerts(fd.doc, fd.certs)
           certs1 ==
               IF missing = {} \/ outcome = "net_err" THEN PruneCerts(fd.certs)
               ELSE IF outcome = "store_err"
                    THEN {c \in PruneCerts(fd.certs) : c \in missing}
               ELSE CertsAfterFetch(fd.certs, missing, newcerts)
           failed == missing # {} /\ outcome # "ok"
       IN  /\ fd' = [fd EXCEPT
                       !.certs = certs1,
                       !.attempts = @ + 1,
                       !.last_err = @ \/ failed,
                       !.sub = IF MissingCerts(fd.doc, certs1) = {} THEN "certs" ELSE @,
                       !.pc = IF MissingCerts(fd.doc, certs1) = {}
                              THEN "advance" ELSE "sleep_certs"]
           /\ store' = IF missing # {} /\ outcome = "ok"
                       THEN [store EXCEPT !.certs = @ \cup newcerts]
                       ELSE store
    /\ UNCHANGED <<now, netdir, ld, rd, notDir>>

SleepCerts ==
    /\ fd.pc = "sleep_certs"
    /\ fd' = [fd EXCEPT !.pc = "fetch_certs"]
    /\ UNCHANGED <<now, netdir, store, ld, rd, notDir>>

\* fetch_certs after its loop: Err(last_err or "Couldn't get certs").
FetchCertsGiveUp ==
    /\ fd.pc = "fetch_certs"
    /\ fd.attempts >= n_retries_certs
    /\ fd' = FdErr("certs")
    /\ UNCHANGED <<now, netdir, store, ld, rd, notDir>>

\* An advance that goes on without checking the consensus's signatures.
UnvalAdvanceUnchecked(d, certs) ==
    IF MissingCerts(d, certs) # {} THEN "same" ELSE "new"

\* UnvalidatedDir::advance: "same", "err" or "new".
UnvalAdvance(d, certs) ==
    IF MissingCerts(d, certs) # {} THEN "same"
    ELSE IF ~CheckSignature(d, PruneCerts(certs)) THEN "err"
    ELSE "new"

\* unval.advance(config)?, then partial.load(store, self.netdir().await).
AdvanceAndLoad(md_ok) ==
    /\ fd.pc = "advance"
    /\ fd' = IF UnvalAdvance(fd.doc, fd.certs) # "new" \/ ~md_ok
             THEN FdErr("")
             ELSE [fd EXCEPT !.pc = "fetch_mds", !.certs = {},
                             !.mds = LoadMds(fd.doc, netdir, store),
                             !.checked = SigOk(fd.doc)
                                 /\ MissingCerts(fd.doc, fd.certs) = {},
                             !.attempts = 0, !.last_err = FALSE]
    /\ UNCHANGED <<now, netdir, store, ld, rd, notDir>>

\* One iteration of PartialDir::fetch_mds: fetch_mds_once, then the test of
\* have_enough_paths.  got: what download_mds returned; outcome: "ok",
\* "store_err" (store_microdescs), "mark_err" (mark_consensus_usable) or
\* "expire_err" (expire_all).
FetchMdsOnce(got, outcome) ==
    /\ fd.pc = "fetch_mds"
    /\ fd.attempts < n_retries_mds
    /\ got \subseteq ListedMds(fd.doc) \ fd.mds
    /\ outcome \in {"ok", "store_err", "mark_err", "expire_err"}
    /\ LET missing == ListedMds(fd.doc) \ fd.mds
           stored == missing # {} /\ outcome # "store_err"
           mds1 == IF stored THEN fd.mds \cup got ELSE fd.mds
           s1 == IF stored THEN [store EXCEPT !.mds = @ \cup got] ELSE store
           enough == HaveEnoughPaths(fd.doc, mds1)
           reached == (missing = {} \/ outcome # "store_err") /\ enough
           s2 == IF reached /\ outcome # "mark_err"
                 THEN MarkConsensusUsable(s1, fd.doc) ELSE s1
           s3 == IF reached /\ outcome = "ok" THEN ExpireAll(s2) ELSE s2
           failed == \/ missing # {} /\ outcome = "store_err"
                     \/ reached /\ outcome \in {"mark_err", "expire_err"}
       IN  /\ fd' = [fd EXCEPT
                       !.mds = mds1,
                       !.attempts = @ + 1,
                       !.last_err = @ \/ failed,
                       !.sub = IF enough THEN "mds" ELSE @,
                       !.pc = IF enough THEN "install" ELSE "sleep_mds"]
           /\ store' = s3
    /\ UNCHANGED <<now, netdir, ld, rd, notDir>>

SleepMds ==
    /\ fd.pc = "sleep_mds"
    /\ fd' = [fd EXCEPT !.pc = "fetch_mds"]
    /\ UNCHANGED <<now, netdir, store, ld, rd, notDir>>

\* fetch_mds after its loop: Err(last_err or "Couldn't get microdescs").
FetchMdsGiveUp ==
    /\ fd.pc = "fetch_mds"
    /\ fd.attempts >= n_retries_mds
    /\ fd' = FdErr("mds")
    /\ UNCHANGED <<now, netdir, store, ld, rd, notDir>>

\* PartialDir::advance: whether unwrap_if_sufficient yields a NetDir.
PartialAdvance(d, mds) == HaveEnoughPaths(d, mds)

\* partial.advance(), then the write of the shared NetDir and Ok(()).
FetchDirInstall ==
    /\ fd.pc = "install"
    /\ IF PartialAdvance(fd.doc, fd.mds)
       THEN /\ netdir' = [doc |-> fd.doc, mds |-> fd.mds]
            /\ fd' = [fd EXCEPT !.pc = "done", !.result = "ok", !.wrote = TRUE]
       ELSE /\ netdir' = netdir
            /\ fd' = FdErr("")
    /\ UNCHANGED <<now, store, ld, rd, notDir>>

FetchDirStep ==
    \/ \E got \in {0} \cup Docs : FetchConsensusOnce(got)
    \/ SleepConsensus
    \/ FetchConsensusGiveUp
    \/ \E timely \in SUBSET KeyIds, cert_ok \in BOOLEAN : UnvalLoad(timely, cert_ok)
    \/ \E newcerts \in SUBSET KeyIds, outcome \in {"ok", "net_err", "store_err"} :
          FetchCertsOnce(newcerts, outcome)
    \/ SleepCerts
    \/ FetchCertsGiveUp
    \/ \E md_ok \in BOOLEAN : AdvanceAndLoad(md_ok)
    \/ \E got \in SUBSET MDs, outcome \in {"ok", "store_err", "mark_err", "expire_err"} :
          FetchMdsOnce(got, outcome)
    \/ SleepMds
    \/ FetchMdsGiveUp
    \/ FetchDirInstall

(***************************************************************************)
(* DirMgr::load_directory.                                                 *)
(***************************************************************************)
LdIdle ==
    [pc |-> "idle", doc |-> 0, mds |-> {}, checked |-> FALSE, wrote |-> FALSE,
     result |-> ""]

\* current_netdir_lasts_past(when).
CurrentNetdirLastsPast(when) ==
    netdir.doc # 0 /\ ValidUntil(netdir.doc) >= when

\* load_directory up to partial.advance(): everything it reads from the cache.
LoadDirLoad(timely, parse_ok) ==
    /\ ld.pc = "idle"
    /\ LET r == NoInfoLoad(FALSE, parse_ok)
           c == LatestConsensus(FALSE)
           cached == store.certs \cap MissingCerts(c, {})
           certs == UnvalLoadCerts(c, timely)
           mds == LoadMds(c, netdir, store)
       IN  /\ r = "new" => timely \subseteq cached
           /\ r # "new" => timely = {}
           /\ ld' =
                CASE r = "same" -> [LdIdle EXCEPT !.pc = "done", !.result = "false"]
                  [] r = "err" -> [LdIdle EXCEPT !.pc = "done", !.result = "err"]
                  [] r = "new" /\ CurrentNetdirLastsPast(ValidUntil(c)) ->
                        [LdIdle EXCEPT !.pc = "done", !.result = "false"]
                  [] r = "new" /\ ~CurrentNetdirLastsPast(ValidUntil(c))
                       /\ UnvalAdvance(c, certs) = "new"
                       /\ PartialAdvance(c, mds) ->
                        [LdIdle EXCEPT !.pc = "install", !.doc = c, !.mds = mds,
                                       !.checked = SigOk(c) /\ MissingCerts(c, certs) = {}]
                  [] OTHER -> [LdIdle EXCEPT !.pc = "done", !.result = "err"]
    /\ UNCHANGED <<now, netdir, store, fd, rd, notDir>>

\* The write of the shared NetDir and Ok(true).
LoadDirInstall ==
    /\ ld.pc = "install"
    /\ netdir' = [doc |-> ld.doc, mds |-> ld.mds]
    /\ ld' = [ld EXCEPT !.pc = "done", !.result = "true", !.wrote = TRUE]
    /\ UNCHANGED <<now, store, fd, rd, notDir>>

(***************************************************************************)
(* DirMgr::netdir, the consumers' read path.                               *)
(***************************************************************************)
\* What netdir() returns: "None" or "Some".
NetdirResult == IF netdir.doc = 0 THEN "None" ELSE "Some"

NetdirRead ==
    /\ rd' = [called |-> TRUE,
              ret |-> NetdirResult,
              expired |-> netdir.doc # 0 /\ now > ValidUntil(netdir.doc)]
    /\ UNCHANGED <<now, netdir, store, fd, ld, notDir>>

Tick ==
    /\ now < MaxTime
    /\ now' = now + 1
    /\ UNCHANGED <<netdir, store, fd, ld, rd, notDir>>

(***************************************************************************)
(* The onion-service circuit pool (hspool.rs).                             *)
(*                                                                         *)
(* Relays "a", "c", "e", "f" serve as hops of stub circuits; "t" and "u"   *)
(* are targets (final hops chosen by somebody else).  "t" declares a       *)
(* family with "a" and has an address in the subnet of "c"; "u" is related *)
(* to no hop.  A stub circuit is the set of its hops and whether it is     *)
(* closing.                                                                *)
(***************************************************************************)
MaxPool == 3
MaxExtendPool == 1
MaxInitPool == 11
MaxRx == 2
MaxTimeout == 2

HopRelays == {"a", "c", "e", "f"}

Targets == {"t", "u"}

\* What a NetDir may list: "c", "e" and "f" always, "a" and "t" or not.
NetDirs == {{"c", "e", "f"} \cup s : s \in SUBSET {"a", "t"}}

\* Relay::in_same_family.
InSameFamily(x, y) == x = y \/ {x, y} = {"t", "a"}

\* SubnetConfig::any_addrs_in_same_subnet.
AnyAddrsInSameSubnet(x, y) == x = y \/ {x, y} = {"t", "c"}

Paths == {p \in SUBSET HopRelays : Cardinality(p) = 2}

Kinds == [path : Paths, closing : BOOLEAN]

NoCirc == [path |-> {}, closing |-> FALSE]

\* A pool is the bag of its circuits.
EmptyPool == EmptyBag

\* Pool::len.
PoolLen(p) == BagCardinality(p)

\* The number of circuits of kind k in the pool.
Holds(p, k) == CopiesIn(k, p)

\* Pool::insert.
PoolInsert(p, k) == p (+) SetToBag({k})

\* What take_one_where does to the pool when it takes a circuit of kind k.
PoolTake(p, k) == IF k = NoCirc THEN p ELSE p (-) SetToBag({k})

\* Pool::retain, given the kinds of circuit to keep.
PoolRetain(p, keep) == [k \in BagToSet(p) \cap keep |-> p[k]]

\* HsCircPool::remove_closed.
RemoveClosed(p) == PoolRetain(p, {k \in Kinds : ~k.closing})

\* A check that passes a circuit as soon as one of its relays is listed.
AnyCircRelayIsListedIn(k, listed) == k.path \cap listed # {}

\* all_circ_relays_are_listed_in.
AllCircRelaysAreListedIn(k, listed) == \A c \in k.path : c \in listed

\* HsCircPool::remove_unlisted.
RemoveUnlisted(p, listed) ==
    PoolRetain(p, {k \in Kinds : AllCircRelaysAreListedIn(k, listed)})

\* A check that looks at the family only.
MayShareFamilyOnly(target, r, listed) ==
    ~(target \in listed /\ InSameFamily(target, r))

\* TargetInfo::may_share_circuit_with; the target's Relay is netdir.by_ids(target).
MayShareCircuitWith(target, r, listed) ==
    /\ ~(target \in listed /\ InSameFamily(target, r))
    /\ ~AnyAddrsInSameSubnet(target, r)

\* circuit_compatible_with_target; target is "none" for no target.
CircuitCompatibleWithTarget(listed, k, target) ==
    /\ ~k.closing
    /\ \A c \in k.path :
          /\ c \in listed
          /\ target # "none" => MayShareCircuitWith(target, c, listed)

\* CircMgr::launch_hs_unmanaged: the circuits it may build from a NetDir.
LaunchHsUnmanaged(listed, target) ==
    {k \in Kinds : /\ ~k.closing
                   /\ k.path \subseteq listed
                   /\ target # "none" =>
                        \A c \in k.path : ~InSameFamily(target, c)
                                          /\ ~AnyAddrsInSameSubnet(target, c)}

(***************************************************************************)
(* The launcher's TaskSchedule (scheduler.rs).  sleep is "none" (no sleep  *)
(* future), "pending" or "ready" (its deadline has passed).                *)
(***************************************************************************)
\* TaskSchedule::new.
NewSchedule == [instant_fire |-> TRUE, sleep |-> "none", rx |-> <<>>]

\* A fire_in that also forgets the commands not yet received.
FireInDroppingCommands(s) ==
    [s EXCEPT !.instant_fire = FALSE, !.sleep = "pending", !.rx = <<>>]

\* TaskSchedule::fire_in.
FireIn(s) == [s EXCEPT !.instant_fire = FALSE, !.sleep = "pending"]

\* TaskScheduleP::handle_command.
HandleCommand(s, cmd) ==
    CASE cmd = "Fire"   -> [s EXCEPT !.instant_fire = TRUE, !.sleep = "none"]
      [] cmd = "FireAt" -> [s EXCEPT !.instant_fire = FALSE, !.sleep = "pending"]
      [] OTHER          -> [s EXCEPT !.instant_fire = FALSE, !.sleep = "none"]

\* poll_next's first loop: every command received so far, in order.
RECURSIVE HandleCommands(_)
HandleCommands(s) ==
    IF s.rx = <<>> THEN s
    ELSE HandleCommands(HandleCommand([s EXCEPT !.rx = Tail(@)], Head(s.rx)))

\* poll_next yields Ready(Some(())).
PollYields(s) ==
    HandleCommands(s).instant_fire \/ HandleCommands(s).sleep = "ready"

\* The schedule after poll_next.
PollNext(s) ==
    LET s1 == HandleCommands(s) IN
    IF s1.instant_fire THEN [s1 EXCEPT !.instant_fire = FALSE]
    ELSE IF s1.sleep = "ready" THEN [s1 EXCEPT !.sleep = "none"]
    ELSE s1

\* TaskHandle::fire.
HandleFire(s) == [s EXCEPT !.rx = Append(@, "Fire")]

(***************************************************************************)
(* launch_hs_circuits_as_needed.                                           *)
(*   pc           "off" (not spawned), "waiting" (in schedule.next()),     *)
(*                "loop" (at the head of 'inner) or "building"             *)
(*   n_to_launch, max_attempts   the locals of that name                   *)
(*   nd           the relays of the NetDir a build in progress uses        *)
(* and, as history of the iteration in progress or just ended:             *)
(*   early    whether the iteration began while the sleep was pending      *)
(*   len0     the pool's length when the iteration began                   *)
(*   attempts the calls of launch_hs_unmanaged                             *)
(*   built    the builds that succeeded                                    *)
(*   failed   the builds that failed since the last success                *)
(*   anyfail  whether any build failed                                     *)
(*   untimely whether it broke off for want of a timely NetDir             *)
(*   gave_up  whether it broke off on max_attempts                         *)
(*   done     whether an iteration has ended, and len_end the pool's       *)
(*            length then                                                  *)
(***************************************************************************)
TARGET_N == 8

LAUNCH_THRESHOLD == 2

LnOff ==
    [pc |-> "off", n_to_launch |-> 0, max_attempts |-> 0, nd |-> {},
     early |-> FALSE, len0 |-> 0, attempts |-> 0, built |-> 0, failed |-> 0, anyfail |-> FALSE,
     untimely |-> FALSE, gave_up |-> FALSE, done |-> FALSE, len_end |-> 0]

\* usize::saturating_sub.
SaturatingSub(x, y) == IF x >= y THEN x - y ELSE 0

\* The number of circuits to launch, as the launcher computes it.
NToLaunch(len) == SaturatingSub(len, TARGET_N)

\* HsCircPool::launch_background_tasks: both tasks are spawned and the handle
\* is stored, once.
LaunchBackgroundTasks ==
    /\ ~launcher_handle
    /\ launcher_handle' = TRUE
    /\ sched' = NewSchedule
    /\ ln' = [LnOff EXCEPT !.pc = "waiting"]
    /\ UNCHANGED <<pool, hs_nd, ev, tk, ex, notHs>>

\* schedule.next().await; when it yields, the iteration begins: remove_closed
\* and the two counters.
LauncherPoll ==
    /\ ln.pc = "waiting"
    /\ sched' = PollNext(sched)
    /\ IF PollYields(sched)
       THEN /\ pool' = RemoveClosed(pool)
            /\ ln' = [LnOff EXCEPT
                        !.pc = "loop",
                        !.n_to_launch = NToLaunch(PoolLen(RemoveClosed(pool))),
                        !.max_attempts = TARGET_N * 2,
                        !.early = (sched.sleep = "pending"),
                        !.len0 = PoolLen(RemoveClosed(pool))]
       ELSE UNCHANGED <<pool, ln>>
    /\ UNCHANGED <<hs_nd, ev, launcher_handle, tk, ex, notHs>>

\* The iteration ends: schedule.fire_in(DELAY), and back to schedule.next().
EndIteration(why) ==
    /\ sched' = FireIn(sched)
    /\ ln' = [ln EXCEPT !.pc = "waiting", !.nd = {},
                        !.n_to_launch = 0, !.max_attempts = 0,
                        !.untimely = (why = "untimely"),
                        !.gave_up = (why = "gave_up"),
                        !.done = TRUE, !.len_end = PoolLen(pool)]

\* The head of 'inner, up to the await of launch_hs_unmanaged.
LauncherLoop ==
    /\ ln.pc = "loop"
    /\ IF ln.n_to_launch > 1
       THEN IF ln.max_attempts - 1 = 0
            THEN EndIteration("gave_up")
            ELSE IF hs_nd.timely
                 THEN /\ ln' = [ln EXCEPT !.pc = "building",
                                         !.max_attempts = @ - 1,
                                         !.attempts = @ + 1,
                                         !.nd = hs_nd.listed]
                      /\ sched' = sched
                 ELSE EndIteration("untimely")
       ELSE EndIteration("launched")
    /\ UNCHANGED <<pool, hs_nd, ev, launcher_handle, tk, ex, notHs>>

\* launch_hs_unmanaged(no_target, &netdir) returns: Ok(circ) or an error.
LauncherBuildDone(circ) ==
    /\ ln.pc = "building"
    /\ circ \in {NoCirc} \cup LaunchHsUnmanaged(ln.nd, "none")
    /\ IF circ # NoCirc
       THEN /\ pool' = PoolInsert(pool, circ)
            /\ ln' = [ln EXCEPT !.pc = "loop", !.nd = {},
                                !.n_to_launch = @ - 1,
                                !.built = @ + 1, !.failed = 0]
       ELSE /\ pool' = pool
            /\ ln' = [ln EXCEPT !.pc = "loop", !.nd = {},
                                !.failed = @ + 1, !.anyfail = TRUE]
    /\ UNCHANGED <<hs_nd, ev, launcher_handle, sched, tk, ex, notHs>>

\* The deadline of the schedule's sleep future passes.
SleepElapses ==
    /\ sched.sleep = "pending"
    /\ sched' = [sched EXCEPT !.sleep = "ready"]
    /\ UNCHANGED <<pool, hs_nd, ev, launcher_handle, ln, tk, ex, notHs>>

\* A pooled circuit starts closing (its reactor shuts down).
CircuitCloses(k) ==
    /\ ~k.closing /\ Holds(pool, k) > 0
    /\ pool' = PoolInsert(PoolTake(pool, k), [k EXCEPT !.closing = TRUE])
    /\ UNCHANGED <<hs_nd, ev, launcher_handle, sched, ln, tk, ex, notHs>>

\* The provider's NetDir stops or starts being timely.
NetDirTimeliness ==
    /\ hs_nd' = [hs_nd EXCEPT !.timely = ~@]
    /\ UNCHANGED <<pool, ev, launcher_handle, sched, ln, tk, ex, notHs>>

(***************************************************************************)
(* remove_unusable_circuits.                                               *)
(*   ev.pending   a directory-change event waits in the task's stream      *)
(*   ev.handled   the task has handled an event                            *)
(*   ev.timely    whether it had a timely NetDir when it last did          *)
(*   ev.evicted   how many circuits it removed when it last did            *)
(***************************************************************************)
NoEvent == [pending |-> FALSE, handled |-> FALSE, timely |-> FALSE, evicted |-> 0]

\* The directory changes: the provider has a new NetDir and sends an event.
NetDirChange(listed, timely) ==
    /\ hs_nd' = [listed |-> listed, timely |-> timely]
    /\ hs_nd' # hs_nd
    /\ ev' = [ev EXCEPT !.pending = TRUE]
    /\ UNCHANGED <<pool, launcher_handle, sched, ln, tk, ex, notHs>>

\* The pool after one event has been handled.
AfterEvent(p, nd) ==
    IF nd.timely THEN RemoveUnlisted(RemoveClosed(p), nd.listed)
    ELSE RemoveClosed(p)

\* One turn of remove_unusable_circuits' loop.
RemoveUnusableCircuits ==
    /\ launcher_handle
    /\ ev.pending
    /\ pool' = AfterEvent(pool, hs_nd)
    /\ ev' = [pending |-> FALSE, handled |-> TRUE, timely |-> hs_nd.timely,
              evicted |-> PoolLen(pool) - PoolLen(pool')]
    /\ UNCHANGED <<hs_nd, launcher_handle, sched, ln, tk, ex, notHs>>

(***************************************************************************)
(* take_or_launch_stub_circuit and its callers.                            *)
(*   tk.ret   "" (no call yet), "pool" (Ok, a pooled circuit), "fresh"     *)
(*            (Ok, a circuit just built), "bad_api_usage" or "build_err"   *)
(*   tk.circ  the circuit returned                                         *)
(*   tk.nd, tk.target   the call's arguments                               *)
(*   tk.found whether take_one_where found a circuit                       *)
(*   tk.len   the pool's length after the take attempt                     *)
(*   tk.fired whether handle.fire() was called                             *)
(*   tk.init  whether launch_background_tasks had been called before       *)
(*   tk.at    where the launcher was when the call was made (ln.pc)        *)
(***************************************************************************)
NoTake ==
    [ret |-> "", circ |-> NoCirc, nd |-> {}, target |-> "none",
     found |-> FALSE, len |-> 0, fired |-> FALSE, init |-> FALSE, at |-> "off"]

\* The test before handle.fire() without its second half.
ShouldFireBelowThresholdOnly(len, found) == len < LAUNCH_THRESHOLD

\* Whether take_or_launch_stub_circuit fires the launcher.
ShouldFire(len, found) == len < LAUNCH_THRESHOLD \/ ~found

\* What take_one_where may pick: any compatible circuit of the pool (NoCirc:
\* there is none).
TakeOneWhere(p, listed, target) ==
    LET ok == {k \in BagToSet(p) : CircuitCompatibleWithTarget(listed, k, target)}
    IN  IF ok = {} THEN {NoCirc} ELSE ok

\* What launch_hs_unmanaged may return to take_or_launch_stub_circuit
\* (NoCirc: an error, or it is not called).
FreshCircs(p, handle, listed, target, found) ==
    IF found # NoCirc \/ ~handle THEN {NoCirc}
    ELSE {NoCirc} \cup LaunchHsUnmanaged(listed, target)

\* take_or_launch_stub_circuit(netdir, avoid_target).  found: the circuit
\* take_one_where picked; fresh: what launch_hs_unmanaged returned.
TakeOrLaunchStubCircuit(listed, target, found, fresh) ==
    /\ found \in TakeOneWhere(pool, listed, target)
    /\ fresh \in FreshCircs(pool, launcher_handle, listed, target, found)
    /\ Len(sched.rx) < MaxRx
    /\ pool' = PoolTake(pool, found)
    /\ LET len == PoolLen(PoolTake(pool, found))
           fire == ShouldFire(len, found # NoCirc)
           call == [NoTake EXCEPT !.nd = listed, !.target = target,
                                  !.found = (found # NoCirc), !.len = len,
                                  !.init = launcher_handle, !.at = ln.pc]
       IN  IF fire /\ ~launcher_handle
           THEN /\ tk' = [call EXCEPT !.ret = "bad_api_usage"]
                /\ sched' = sched
           ELSE /\ sched' = IF fire THEN HandleFire(sched) ELSE sched
                /\ tk' = [call EXCEPT
                            !.fired = fire,
                            !.circ = IF found # NoCirc THEN found ELSE fresh,
                            !.ret = IF found # NoCirc THEN "pool"
                                    ELSE IF fresh # NoCirc THEN "fresh"
                                    ELSE "build_err"]

\* A call of take_or_launch_stub_circuit, from get_or_launch_client_rend
\* (no target) or for a target, up to its return.
TakeStub(listed, target, found, fresh) ==
    /\ ex.pc # "extending"
    /\ TakeOrLaunchStubCircuit(listed, target, found, fresh)
    /\ UNCHANGED <<hs_nd, ev, launcher_handle, ln, ex, notHs>>

(***************************************************************************)
(* get_or_launch_specific.                                                 *)
(*   ex.pc      "idle", "extending" or "done"                              *)
(*   ex.circ    the stub circuit being extended                            *)
(*   ex.soft, ex.hard   the two values timeouts(action) returned           *)
(*   ex.limit   the duration given to Runtime::timeout                     *)
(*   ex.elapsed the time spent waiting for extend_ntor, so far             *)
(*   ex.ret     "" or "ok", "CircTimeout", "Protocol", "BadApiUsage",      *)
(*              "take_err"                                                 *)
(*   ex.out     the circuit returned                                       *)
(*   ex.len     the pool's length when the extension began                 *)
(***************************************************************************)
ExIdle ==
    [pc |-> "idle", circ |-> NoCirc, soft |-> 0, hard |-> 0, limit |-> 0,
     elapsed |-> 0, ret |-> "", out |-> NoCirc, len |-> 0]

\* What timeouts(action) may return: two durations, the first no longer than
\* the second.
TimeoutPairs == {p \in (1..MaxTimeout) \X (1..MaxTimeout) : p[1] <= p[2]}

\* A timeout taken from the second value of the estimate.
ExtendTimeoutHard(tmo) == tmo[2]

\* let (extend_timeout, _) = ...estimator().timeouts(&action).
ExtendTimeout(tmo) == tmo[1]

\* get_or_launch_specific up to the await of the timeout future.
GetOrLaunchSpecific(kind, listed, target, found, fresh, tmo) ==
    /\ ex.pc # "extending"
    /\ IF kind = "ClientRend"
       THEN /\ ex' = [ExIdle EXCEPT !.pc = "done", !.ret = "BadApiUsage"]
            /\ found = NoCirc /\ fresh = NoCirc /\ tmo = <<1, 1>>
            /\ UNCHANGED <<pool, sched, tk>>
       ELSE /\ TakeOrLaunchStubCircuit(listed, target, found, fresh)
            /\ IF tk'.ret \in {"pool", "fresh"}
               THEN ex' = [ExIdle EXCEPT
                             !.pc = "extending", !.circ = tk'.circ,
                             !.soft = tmo[1], !.hard = tmo[2],
                             !.limit = ExtendTimeout(tmo),
                             !.len = PoolLen(pool')]
               ELSE /\ ex' = [ExIdle EXCEPT !.pc = "done", !.ret = "take_err"]
                    /\ tmo = <<1, 1>>
    /\ UNCHANGED <<hs_nd, ev, launcher_handle, ln, notHs>>

\* The timeout future is polled: extend_ntor first (progress: "ok", "err" or
\* "pending"), then the timer.
ExtendPoll(progress) ==
    /\ ex.pc = "extending"
    /\ ex' = IF progress # "pending"
             THEN [ex EXCEPT !.pc = "done",
                             !.ret = IF progress = "err" THEN "Protocol" ELSE "ok",
                             !.out = IF progress = "err" THEN NoCirc ELSE ex.circ]
             ELSE IF ex.elapsed >= ex.limit
             THEN [ex EXCEPT !.pc = "done", !.ret = "CircTimeout"]
             ELSE [ex EXCEPT !.elapsed = @ + 1]
    /\ UNCHANGED <<pool, hs_nd, ev, launcher_handle, sched, ln, tk, notHs>>

(***************************************************************************)
(* DirMgr::fetch_additional_microdescs.                                    *)
(*   pc       "idle", "download" (in download_mds) or "done"               *)
(*   missing  the microdescriptors it asks for                             *)
(*   wrote    history: this call wrote the shared NetDir                   *)
(***************************************************************************)
FamIdle == [pc |-> "idle", missing |-> {}, wrote |-> FALSE]

\* NetDir::missing_microdescs.
MissingMicrodescs(nd) == ListedMds(nd.doc) \ nd.mds

\* NetDir::extend: the microdescriptors the consensus lists are added.
Extend(nd, mds) == [nd EXCEPT !.mds = @ \cup (mds \cap ListedMds(nd.doc))]

\* fetch_additional_microdescs up to the await of download_mds.
FetchAdditionalBegin ==
    /\ fam.pc = "idle"
    /\ fam' = IF netdir.doc = 0 \/ MissingMicrodescs(netdir) = {}
              THEN [FamIdle EXCEPT !.pc = "done"]
              ELSE [FamIdle EXCEPT !.pc = "download",
                                   !.missing = MissingMicrodescs(netdir)]
    /\ UNCHANGED <<dirVars, hsVars, pureVars>>

\* download_mds returns (got: the microdescriptors; store_ok: whether
\* store_microdescs succeeded), then the NetDir is replaced by its extension.
FetchAdditionalUpdate(got, store_ok) ==
    /\ fam.pc = "download"
    /\ got \subseteq fam.missing
    /\ store' = IF store_ok THEN [store EXCEPT !.mds = @ \cup got] ELSE store
    /\ IF store_ok /\ got # {} /\ netdir.doc # 0
       THEN /\ netdir' = Extend(netdir, got)
            /\ fam' = [fam EXCEPT !.pc = "done", !.wrote = TRUE]
       ELSE /\ netdir' = netdir
            /\ fam' = [fam EXCEPT !.pc = "done"]
    /\ UNCHANGED <<now, fd, ld, rd, hsVars, pureVars>>

(***************************************************************************)
(* Relay cells (tor-proto/src/relaycell/msg.rs).                           *)
(*                                                                         *)
(* A byte is a number in 0..255 and a byte string a sequence of bytes.  A  *)
(* message is [variant, f] with f the record of the variant's fields; an   *)
(* Option is <<>> for None and <<x>> for Some(x); an IpAddr is the         *)
(* sequence of its 4 or 16 octets.                                         *)
(***************************************************************************)
MaxStreamId == 1

CELL_DATA_LEN == 509

MIN_SPACE_BEFORE_PADDING == 4

TAP_C_HANDSHAKE_LEN == 186

TAP_S_HANDSHAKE_LEN == 148

REASON_MISC == 1

REASON_EXITPOLICY == 4

RES_HOSTNAME == 0

RES_IPV4 == 4

RES_IPV6 == 6

RES_ERR_TRANSIENT == 240

RES_ERR_NONTRANSIENT == 241

\* n copies of byte b.
Rep(b, n) == [i \in 1..n |-> b]

\* Writer::write_u16 and write_u32: big-endian.
U16(n) == <<(n \div 256) % 256, n % 256>>

U32(n) == U16(n \div 65536) \o U16(n % 65536)

\* Reader::take_u16 and take_u32 on the first bytes of s.
TakeU16(s) == s[1] * 256 + s[2]

TakeU32(s) == TakeU16(s) * 65536 + TakeU16(SubSeq(s, 3, 4))

\* s without its first n bytes.
Advance(s, n) == SubSeq(s, n + 1, Len(s))

RECURSIVE Flatten(_)
\* The concatenation of a sequence of byte strings.
Flatten(ss) == IF ss = <<>> THEN <<>> ELSE Head(ss) \o Flatten(Tail(ss))

RECURSIVE DecString(_)
\* u16::to_string().as_bytes(): the decimal digits, in ASCII.
DecString(n) ==
    IF n < 10 THEN <<48 + n>> ELSE DecString(n \div 10) \o <<48 + (n % 10)>>

\* The StreamCmd of each variant but Unrecognized, which carries its own.
CmdOf ==
    [Begin |-> 1, Data |-> 2, End |-> 3, Connected |-> 4, Sendme |-> 5,
     Extend |-> 6, Extended |-> 7, Truncate |-> 8, Truncated |-> 9,
     Drop |-> 10, Resolve |-> 11, Resolved |-> 12, BeginDir |-> 13,
     Extend2 |-> 14, Extended2 |-> 15]

\* RelayMsg::get_cmd.
GetCmd(m) == IF m.variant = "Unrecognized" THEN m.f.cmd ELSE CmdOf[m.variant]

\* Writeable for LinkSpec: type, length, body.
WriteLinkSpec(ls) == <<ls.lstype, Len(ls.body)>> \o ls.body

\* Writeable for ResolvedVal.
WriteResolvedVal(rv) ==
    CASE rv.kind = "Hostname" -> <<RES_HOSTNAME, Len(rv.val)>> \o rv.val
      [] rv.kind = "Ip" /\ Len(rv.val) = 4 -> <<RES_IPV4, 4>> \o rv.val
      [] rv.kind = "Ip" /\ Len(rv.val) # 4 -> <<RES_IPV6, 16>> \o rv.val
      [] rv.kind = "TransientError" -> <<RES_ERR_TRANSIENT, 0>>
      [] rv.kind = "NontransientError" -> <<RES_ERR_NONTRANSIENT, 0>>
      [] OTHER -> <<rv.tp, Len(rv.val)>> \o rv.val

\* Extend2::encode_onto.
EncodeExtend2(f) ==
    <<Len(f.linkspec)>> \o Flatten([i \in 1..Len(f.linkspec) |-> WriteLinkSpec(f.linkspec[i])])
        \o U16(f.handshake_type) \o f.handshake

\* RelayMsg::encode_onto: the bytes each variant's encode_onto appends.
EncodeOnto(m) ==
    LET f == m.f IN
    CASE m.variant = "Begin" ->
            f.addr \o <<58>> \o DecString(f.port) \o <<0>> \o U32(f.flags)
      [] m.variant = "Data" -> f.body
      [] m.variant = "End" ->
            <<f.reason>> \o
            (IF f.reason = REASON_EXITPOLICY /\ f.addr # <<>>
             THEN f.addr[1].ip \o U32(f.addr[1].ttl) ELSE <<>>)
      [] m.variant = "Connected" ->
            IF f.addr = <<>> THEN <<>>
            ELSE (IF Len(f.addr[1].ip) = 4 THEN f.addr[1].ip
                  ELSE U32(0) \o <<6>> \o f.addr[1].ip) \o U32(f.addr[1].ttl)
      [] m.variant = "Sendme" -> IF f.digest = <<>> THEN <<>> ELSE f.digest[1]
      [] m.variant = "Extend" -> f.addr \o U16(f.port) \o f.handshake \o f.rsaid
      [] m.variant = "Extended" -> f.handshake
      [] m.variant = "Extend2" -> EncodeExtend2(f)
      [] m.variant = "Extended2" -> U16(Len(f.handshake)) \o f.handshake
      [] m.variant = "Truncated" -> <<f.reason>>
      [] m.variant = "Resolve" -> f.query \o <<0>>
      [] m.variant = "Resolved" ->
            Flatten([i \in 1..Len(f.answers) |->
                       WriteResolvedVal(f.answers[i].rv) \o U32(f.answers[i].ttl)])
      [] m.variant = "Unrecognized" -> f.body
      [] OTHER -> <<>>

\* RelayCell::encode_to_vec.
EncodeToVec(streamid, m) ==
    <<GetCmd(m)>> \o U16(0) \o U16(streamid) \o U32(0)
        \o U16(Len(EncodeOnto(m))) \o EncodeOnto(m)

\* The positions filled from the generator when no zero byte is left before them.
RandomFillNoGap(enc_len) == (enc_len + 1)..CELL_DATA_LEN

\* The positions (from 1) RelayCell::encode fills from the generator.
RandomFill(enc_len) ==
    IF enc_len < CELL_DATA_LEN - MIN_SPACE_BEFORE_PADDING
    THEN (enc_len + MIN_SPACE_BEFORE_PADDING + 1)..CELL_DATA_LEN
    ELSE {}

\* RelayCell::encode: an error, or the 509 bytes and which of them are random
\* (shown as 0 in raw: no decoder reads them).
Encode(streamid, m) ==
    LET encoded == EncodeToVec(streamid, m)
        enc_len == Len(encoded)
    IN  IF enc_len > CELL_DATA_LEN
        THEN [ok |-> FALSE, raw |-> <<>>, random |-> {}, enc_len |-> enc_len]
        ELSE [ok |-> TRUE,
              raw |-> encoded \o Rep(0, CELL_DATA_LEN - enc_len),
              random |-> RandomFill(enc_len),
              enc_len |-> enc_len]

\* A decoder's error, and its success with the fields f.
Bad == [ok |-> FALSE]

Ok(f) == [ok |-> TRUE, f |-> f]

\* Reader::take_until(b): the position of the first b in s, 0 if there is none.
IndexOf(s, b) ==
    IF \E i \in 1..Len(s) : s[i] = b
    THEN CHOOSE i \in 1..Len(s) : s[i] = b /\ \A j \in 1..(i - 1) : s[j] # b
    ELSE 0

\* <[u8]>::is_ascii.
IsAscii(s) == \A i \in 1..Len(s) : s[i] < 128

RECURSIVE DigitsValue(_)
\* The number a string of ASCII digits reads as.
DigitsValue(s) ==
    IF s = <<>> THEN 0
    ELSE DigitsValue(SubSeq(s, 1, Len(s) - 1)) * 10 + (s[Len(s)] - 48)

\* u16::from_str_radix(port, 10): digits after an optional '+', at most 65535.
ParsePort(s) ==
    LET d == IF s # <<>> /\ s[1] = 43 THEN Tail(s) ELSE s IN
    IF d = <<>> \/ (\E i \in 1..Len(d) : d[i] < 48 \/ d[i] > 57) THEN Bad
    ELSE IF Len(d) > 5 \/ DigitsValue(d) > 65535 THEN Bad
    ELSE Ok(DigitsValue(d))

RECURSIVE ExtractLinkSpecs(_, _)
\* Reader::extract_n(n) of LinkSpec: the n values and the bytes left.
ExtractLinkSpecs(r, n) ==
    IF n = 0 THEN [ok |-> TRUE, val |-> <<>>, rest |-> r]
    ELSE IF Len(r) < 2 \/ Len(r) < 2 + r[2] THEN [ok |-> FALSE]
    ELSE LET more == ExtractLinkSpecs(Advance(r, 2 + r[2]), n - 1) IN
         IF ~more.ok THEN [ok |-> FALSE]
         ELSE [ok |-> TRUE,
               val |-> <<[lstype |-> r[1], body |-> SubSeq(r, 3, 2 + r[2])]>> \o more.val,
               rest |-> more.rest]

\* Readable for ResolvedVal: the value and the bytes left.
TakeResolvedVal(r) ==
    IF Len(r) < 2 THEN [ok |-> FALSE]
    ELSE LET tp == r[1]
             len == r[2]
             val == SubSeq(r, 3, 2 + len)
             rest == Advance(r, 2 + len)
         IN  IF (tp = RES_IPV4 /\ len # 4) \/ (tp = RES_IPV6 /\ len # 16) THEN [ok |-> FALSE]
             ELSE IF Len(r) < 2 + len THEN [ok |-> FALSE]
             ELSE [ok |-> TRUE, rest |-> rest,
                   val |-> CASE tp = RES_HOSTNAME -> [kind |-> "Hostname", val |-> val]
                             [] tp = RES_IPV4 \/ tp = RES_IPV6 -> [kind |-> "Ip", val |-> val]
                             [] tp = RES_ERR_TRANSIENT -> [kind |-> "TransientError"]
                             [] tp = RES_ERR_NONTRANSIENT -> [kind |-> "NontransientError"]
                             [] OTHER -> [kind |-> "Unrecognized", tp |-> tp, val |-> val]]

RECURSIVE DecodeAnswers(_)
\* Resolved::decode_from_reader: (value, ttl) pairs until nothing remains.
DecodeAnswers(r) ==
    IF r = <<>> THEN [ok |-> TRUE, val |-> <<>>]
    ELSE LET rv == TakeResolvedVal(r) IN
         IF ~rv.ok THEN [ok |-> FALSE]
         ELSE IF Len(rv.rest) < 4 THEN [ok |-> FALSE]
         ELSE LET more == DecodeAnswers(Advance(rv.rest, 4)) IN
              IF ~more.ok THEN [ok |-> FALSE]
              ELSE [ok |-> TRUE,
                    val |-> <<[rv |-> rv.val, ttl |-> TakeU32(rv.rest)]>> \o more.val]

\* Begin::decode_from_reader.
DecodeBegin(r) ==
    LET i == IndexOf(r, 58)
        r1 == Advance(r, i)
        j == IndexOf(r1, 0)
        r2 == Advance(r1, j)
    IN  IF i = 0 \/ j = 0 THEN Bad
        ELSE IF ~IsAscii(SubSeq(r, 1, i - 1)) THEN Bad
        ELSE IF ~ParsePort(SubSeq(r1, 1, j - 1)).ok THEN Bad
        ELSE Ok([addr |-> SubSeq(r, 1, i - 1),
                 port |-> ParsePort(SubSeq(r1, 1, j - 1)).f,
                 flags |-> IF Len(r2) >= 4 THEN TakeU32(r2) ELSE 0])

\* End::decode_from_reader.
DecodeEnd(r) ==
    IF r = <<>> THEN Ok([reason |-> REASON_MISC, addr |-> <<>>])
    ELSE IF r[1] = REASON_EXITPOLICY /\ Len(r) - 1 \in {8, 20}
    THEN Ok([reason |-> r[1],
             addr |-> <<[ip |-> SubSeq(r, 2, Len(r) - 4),
                         ttl |-> TakeU32(Advance(r, Len(r) - 4))]>>])
    ELSE Ok([reason |-> r[1], addr |-> <<>>])

\* Connected::decode_from_reader.
DecodeConnected(r) ==
    IF r = <<>> THEN Ok([addr |-> <<>>])
    ELSE IF Len(r) < 4 THEN Bad
    ELSE IF TakeU32(r) = 0
    THEN IF Len(r) < 5 THEN Bad
         ELSE IF r[5] # 6 THEN Ok([addr |-> <<>>])
         ELSE IF Len(r) < 25 THEN Bad
         ELSE Ok([addr |-> <<[ip |-> SubSeq(r, 6, 21),
                              ttl |-> TakeU32(Advance(r, 21))]>>])
    ELSE IF Len(r) < 8 THEN Bad
    ELSE Ok([addr |-> <<[ip |-> SubSeq(r, 1, 4), ttl |-> TakeU32(Advance(r, 4))]>>])

\* Extend::decode_from_reader.
DecodeExtend(r) ==
    IF Len(r) < 6 + TAP_C_HANDSHAKE_LEN + 20 THEN Bad
    ELSE Ok([addr |-> SubSeq(r, 1, 4),
             port |-> TakeU16(Advance(r, 4)),
             handshake |-> SubSeq(r, 7, 6 + TAP_C_HANDSHAKE_LEN),
             rsaid |-> SubSeq(r, 7 + TAP_C_HANDSHAKE_LEN, 26 + TAP_C_HANDSHAKE_LEN)])

\* Extend2::decode_from_reader.
DecodeExtend2(r) ==
    IF r = <<>> THEN Bad
    ELSE LET ls == ExtractLinkSpecs(Tail(r), r[1]) IN
         IF ~ls.ok THEN Bad
         ELSE IF Len(ls.rest) < 4 THEN Bad
         ELSE LET hlen == TakeU16(Advance(ls.rest, 2)) IN
              IF Len(ls.rest) < 4 + hlen THEN Bad
              ELSE Ok([linkspec |-> ls.val,
                       handshake_type |-> TakeU16(ls.rest),
                       handshake |-> SubSeq(ls.rest, 5, 4 + hlen)])

\* Extended2::decode_from_reader.
DecodeExtended2(r) ==
    IF Len(r) < 2 \/ Len(r) < 2 + TakeU16(r) THEN Bad
    ELSE Ok([handshake |-> SubSeq(r, 3, 2 + TakeU16(r))])

\* Sendme::decode_from_reader.
DecodeSendme(r) == Ok([digest |-> <<r>>])

\* RelayMsg::decode_from_reader: the variant of command c read from body r.
DecodeMsg(c, r) ==
    LET as(variant, d) ==
            IF d.ok THEN [ok |-> TRUE, msg |-> [variant |-> variant, f |-> d.f]]
            ELSE Bad
    IN  CASE c = CmdOf.Begin -> as("Begin", DecodeBegin(r))
          [] c = CmdOf.Data -> as("Data", Ok([body |-> r]))
          [] c = CmdOf.End -> as("End", DecodeEnd(r))
          [] c = CmdOf.Connected -> as("Connected", DecodeConnected(r))
          [] c = CmdOf.Sendme -> as("Sendme", DecodeSendme(r))
          [] c = CmdOf.Extend -> as("Extend", DecodeExtend(r))
          [] c = CmdOf.Extended ->
                as("Extended", IF Len(r) < TAP_S_HANDSHAKE_LEN THEN Bad
                               ELSE Ok([handshake |-> SubSeq(r, 1, TAP_S_HANDSHAKE_LEN)]))
          [] c = CmdOf.Extend2 -> as("Extend2", DecodeExtend2(r))
          [] c = CmdOf.Extended2 -> as("Extended2", DecodeExtended2(r))
          [] c = CmdOf.Truncate -> as("Truncate", Ok(<<>>))
          [] c = CmdOf.Truncated ->
                as("Truncated", IF r = <<>> THEN Bad ELSE Ok([reason |-> r[1]]))
          [] c = CmdOf.Drop -> as("Drop", Ok(<<>>))
          [] c = CmdOf.Resolve ->
                as("Resolve", IF IndexOf(r, 0) = 0 THEN Bad
                              ELSE Ok([query |-> SubSeq(r, 1, IndexOf(r, 0) - 1)]))
          [] c = CmdOf.Resolved ->
                as("Resolved", IF DecodeAnswers(r).ok
                               THEN Ok([answers |-> DecodeAnswers(r).val]) ELSE Bad)
          [] c = CmdOf.BeginDir -> as("BeginDir", Ok(<<>>))
          [] OTHER -> as("Unrecognized", Ok([cmd |-> c, body |-> r]))

\* RelayCell::decode of the bytes raw.
Decode(raw) ==
    LET streamid == TakeU16(Advance(raw, 3))
        len == TakeU16(Advance(raw, 9))
        body == DecodeMsg(raw[1], SubSeq(raw, 12, 11 + len))
    IN  IF Len(raw) < 11 \/ Len(raw) - 11 < len \/ ~body.ok THEN Bad
        ELSE [ok |-> TRUE, streamid |-> streamid, msg |-> body.msg]

CellIdle == [pc |-> "idle", streamid |-> 0, msg |-> <<>>, enc |-> <<>>, dec |-> <<>>]

(***************************************************************************)
(* HsDir ring parameters (tor-netdir/src/hsdir_params.rs).                 *)
(*                                                                         *)
(* A SystemTime is its number of seconds since the epoch and a Duration a  *)
(* number of seconds.  A consensus is [lifetime, shared_rand_cur,          *)
(* shared_rand_prev]; a listed shared random value is [value, timestamp],  *)
(* the timestamp an Option.  TimePeriod is a type of tor-hscrypto: a period*)
(* is [interval_num, length, offset], the interval_num-th interval of      *)
(* length seconds counted from offset seconds after the epoch.             *)
(***************************************************************************)
MaxHour == 23

VOTING_PERIODS_IN_OFFSET == 12

VOTING_PERIODS_IN_SRV_ROUND == 24

ONE_DAY == 86400

\* 1985-10-25T07:00:00Z, the valid-after time of the example consensus.
ExampleValidAfter == 499071600

SRV1 == [name |-> "SRV1", of |-> <<>>]

SRV2 == [name |-> "SRV2", of |-> <<>>]

\* voting_period: fresh_until - valid_after (Lifetime::new admits no lifetime
\* with fresh_until before valid_after).
voting_period(lifetime) == lifetime.fresh_until - lifetime.valid_after

start_of_day_containing(t) == t - (t % ONE_DAY)

\* An SRV lifetime of one voting period only.
srv_interval_one_period(consensus) == voting_period(consensus.lifetime)

srv_interval(consensus) ==
    LET cur == consensus.shared_rand_cur
        prev == consensus.shared_rand_prev
    IN  IF /\ cur # <<>> /\ prev # <<>>
           /\ cur[1].timestamp # <<>> /\ prev[1].timestamp # <<>>
           /\ cur[1].timestamp[1] >= prev[1].timestamp[1]
        THEN cur[1].timestamp[1] - prev[1].timestamp[1]
        ELSE voting_period(consensus.lifetime) * VOTING_PERIODS_IN_SRV_ROUND

\* extract_srvs: (value, begin..end) of the current SRV, then of the previous.
extract_srvs(consensus) ==
    LET consensus_ts == consensus.lifetime.valid_after
        info(srv, begin) ==
            [value |-> srv.value, begin |-> begin, end |-> begin + srv_interval(consensus)]
        cur == consensus.shared_rand_cur
        prev == consensus.shared_rand_prev
    IN  (IF cur = <<>> THEN <<>>
         ELSE <<info(cur[1], IF cur[1].timestamp # <<>> THEN cur[1].timestamp[1]
                             ELSE start_of_day_containing(consensus_ts))>>)
        \o
        (IF prev = <<>> THEN <<>>
         ELSE <<info(prev[1], IF prev[1].timestamp # <<>> THEN prev[1].timestamp[1]
                              ELSE start_of_day_containing(consensus_ts) - ONE_DAY)>>)

\* The positions in info of the SRVs whose range contains when.
Covering(info, when) ==
    {i \in 1..Len(info) : info[i].begin <= when /\ when < info[i].end}

\* A lookup that takes the first SRV listed, whatever its range.
find_srv_ignoring_time(info, when) ==
    IF info = <<>> THEN <<>> ELSE <<info[1].value>>

\* find_srv_for_time: the first SRV of info whose range contains when.
find_srv_for_time(info, when) ==
    IF Covering(info, when) = {} THEN <<>>
    ELSE <<info[CHOOSE i \in Covering(info, when) :
                   \A j \in Covering(info, when) : i <= j].value>>

\* TimePeriod::new(length, when, offset), for when at or after offset.
TimePeriodNew(length, when, offset) ==
    [interval_num |-> (when - offset) \div length, length |-> length, offset |-> offset]

\* TimePeriod::range().start.
PeriodStart(period) == period.offset + period.interval_num * period.length

\* TimePeriod::prev and TimePeriod::next, as Options.
PeriodPrev(period) ==
    IF period.interval_num = 0 THEN <<>>
    ELSE <<[period EXCEPT !.interval_num = @ - 1]>>

PeriodNext(period) == <<[period EXCEPT !.interval_num = @ + 1]>>

\* disaster_srv: a digest of the period's length in minutes and its number.
disaster_srv(period) ==
    [name |-> "disaster", of |-> <<period.length \div 60, period.interval_num>>]

\* No offset at all.
RingOffsetZero(lifetime) == 0

\* The offset of the first time period from the epoch.
RingOffset(lifetime) == voting_period(lifetime) * VOTING_PERIODS_IN_OFFSET

\* compute_ring_parameters(consensus, params), hsdir_interval the minutes of
\* params.hsdir_timeperiod_length.
compute_ring_parameters(consensus, hsdir_interval) ==
    LET srvs == extract_srvs(consensus)
        tp_length == hsdir_interval * 60
        offset == RingOffset(consensus.lifetime)
        cur_period == TimePeriodNew(tp_length, consensus.lifetime.valid_after, offset)
        cur_srv == find_srv_for_time(srvs, PeriodStart(cur_period))
        ring_for(period) ==
            IF period = <<>> \/ find_srv_for_time(srvs, PeriodStart(period[1])) = <<>>
            THEN <<>>
            ELSE <<[time_period |-> period[1],
                    shared_rand |-> find_srv_for_time(srvs, PeriodStart(period[1]))[1]]>>
    IN  [main_ring |->
            [time_period |-> cur_period,
             shared_rand |-> IF cur_srv = <<>> THEN disaster_srv(cur_period) ELSE cur_srv[1]],
         other_rings |-> ring_for(PeriodPrev(cur_period)) \o ring_for(PeriodNext(cur_period))]

\* The consensuses and parameters the ring specification computes with: the
\* example consensus of the unit tests, at every hour of its day, with voting
\* periods of an hour and of 22 minutes, and SRVs absent or listed with or
\* without timestamps.
SrvTimestamps ==
    {<<>>, <<start_of_day_containing(ExampleValidAfter)>>,
     <<start_of_day_containing(ExampleValidAfter) + 5 * 3600>>}

Consensuses ==
    {[lifetime |-> [valid_after |-> va, fresh_until |-> va + vp],
      shared_rand_cur |-> cur, shared_rand_prev |-> prev] :
        va \in {start_of_day_containing(ExampleValidAfter) + 3600 * h : h \in 0..MaxHour},
        vp \in {3600, 22 * 60},
        cur \in {<<>>} \cup {<<[value |-> SRV2, timestamp |-> ts]>> : ts \in SrvTimestamps},
        prev \in {<<>>} \cup {<<[value |-> SRV1, timestamp |-> ts]>> : ts \in SrvTimestamps}}

ExampleConsensus ==
    [lifetime |-> [valid_after |-> ExampleValidAfter, fresh_until |-> ExampleValidAfter + 3600],
     shared_rand_cur |-> <<[value |-> SRV2, timestamp |-> <<>>]>>,
     shared_rand_prev |-> <<[value |-> SRV1, timestamp |-> <<>>]>>]

RingIdle == [pc |-> "idle", consensus |-> <<>>, hsdir_interval |-> 0, rings |-> <<>>]

(***************************************************************************)
(* A TaskSchedule on its own, with the time of its runtime                 *)
(* (tor-rtcompat/src/scheduler.rs).  Here sleep is an Option of the        *)
(* instant at which the sleep future becomes ready, and a command is       *)
(* [cmd, instant].  A sleep future is ready when polled at or after its    *)
(* instant.                                                                *)
(*   s       the schedule: instant_fire, sleep, rx                         *)
(*   clock   the runtime's now()                                           *)
(*   alive   whether a TaskHandle exists                                   *)
(*   out     what the last poll_next returned: "item", "pending" or "end"  *)
(* and, as history:                                                        *)
(*   tog     flips at every poll                                           *)
(*   polls   the polls so far (counted up to 2)                            *)
(*   last    the last command the last poll found in rx, "none" if none    *)
(*   from_fires  the last poll found the schedule idle (no instant and no  *)
(*           delayed firing) and in rx nothing but Fire, at least one      *)
(*   fresh   nothing but polls has happened to the schedule since new      *)
(*   armed   the last fire_in or fire_at, if nothing was sent or set after *)
(*           it: its instant, whether rx was empty then (for fire_at: the  *)
(*           command joins the queue, so always), and the items yielded    *)
(*           since                                                         *)
(***************************************************************************)
MaxClock == 3

MaxDelay == 1

MaxScRx == 2

Cmd(cmd, instant) == [cmd |-> cmd, instant |-> instant]

\* TaskSchedule::new.
new == [instant_fire |-> TRUE, sleep |-> <<>>, rx |-> <<>>]

\* TaskSchedule::fire_in(dur) at time t.
fire_in(s, t, dur) == [s EXCEPT !.instant_fire = FALSE, !.sleep = <<t + dur>>]

\* A fire that lets a delayed firing stand.
fire_keeping_sleep(s) == [s EXCEPT !.instant_fire = TRUE]

\* TaskSchedule::fire.
fire(s) == [s EXCEPT !.instant_fire = TRUE, !.sleep = <<>>]

\* A command that lets a delayed firing stand unless it is a FireAt.
handle_command_keeping_sleep(s, t, cmd) ==
    CASE cmd.cmd = "Fire" -> [s EXCEPT !.instant_fire = TRUE]
      [] cmd.cmd = "FireAt" ->
            [s EXCEPT !.instant_fire = FALSE,
                      !.sleep = <<IF cmd.instant > t THEN cmd.instant ELSE t>>]
      [] OTHER -> [s EXCEPT !.instant_fire = FALSE]

\* A FireAt that leaves an instant firing in place.
handle_command_keeping_fire(s, t, cmd) ==
    CASE cmd.cmd = "Fire" -> [s EXCEPT !.instant_fire = TRUE, !.sleep = <<>>]
      [] cmd.cmd = "FireAt" ->
            [s EXCEPT !.sleep = <<IF cmd.instant > t THEN cmd.instant ELSE t>>]
      [] OTHER -> [s EXCEPT !.instant_fire = FALSE, !.sleep = <<>>]

\* TaskScheduleP::handle_command at time t; saturating_duration_since gives
\* a sleep until the later of the instant and t.
handle_command(s, t, cmd) ==
    CASE cmd.cmd = "Fire" -> [s EXCEPT !.instant_fire = TRUE, !.sleep = <<>>]
      [] cmd.cmd = "FireAt" ->
            [s EXCEPT !.instant_fire = FALSE,
                      !.sleep = <<IF cmd.instant > t THEN cmd.instant ELSE t>>]
      [] OTHER -> [s EXCEPT !.instant_fire = FALSE, !.sleep = <<>>]

\* A loop that handles the first command only.
handle_commands_first_only(s, t) ==
    IF s.rx = <<>> THEN s
    ELSE handle_command([s EXCEPT !.rx = Tail(@)], t, Head(s.rx))

RECURSIVE handle_commands(_, _)
\* poll_next's loop over rx: every command received, in order.
handle_commands(s, t) ==
    IF s.rx = <<>> THEN s
    ELSE handle_commands(handle_command([s EXCEPT !.rx = Tail(@)], t, Head(s.rx)), t)

\* Whether the schedule is idle and has received nothing but Fire commands.
IdleAndFired(s) ==
    /\ ~s.instant_fire
    /\ s.sleep = <<>>
    /\ s.rx # <<>>
    /\ \A i \in 1..Len(s.rx) : s.rx[i].cmd = "Fire"

\* A poll_next that leaves instant_fire set.
poll_next_keeping_fire(s, t, alive) ==
    LET s1 == handle_commands(s, t) IN
    IF ~alive THEN [s |-> s1, out |-> "end"]
    ELSE IF s1.instant_fire THEN [s |-> s1, out |-> "item"]
    ELSE IF s1.sleep # <<>> /\ t >= s1.sleep[1]
    THEN [s |-> [s1 EXCEPT !.sleep = <<>>], out |-> "item"]
    ELSE [s |-> s1, out |-> "pending"]

\* A poll_next that goes on when no TaskHandle is left.
poll_next_without_end(s, t, alive) ==
    LET s1 == handle_commands(s, t) IN
    IF s1.instant_fire
    THEN [s |-> [s1 EXCEPT !.instant_fire = FALSE], out |-> "item"]
    ELSE IF s1.sleep # <<>> /\ t >= s1.sleep[1]
    THEN [s |-> [s1 EXCEPT !.sleep = <<>>], out |-> "item"]
    ELSE [s |-> s1, out |-> "pending"]

\* Stream::poll_next at time t: the schedule after it and what it returns.
\* When no TaskHandle is left, rx ends after its commands: end of stream.
poll_next(s, t, alive) ==
    LET s1 == handle_commands(s, t) IN
    IF ~alive THEN [s |-> s1, out |-> "end"]
    ELSE IF s1.instant_fire
    THEN [s |-> [s1 EXCEPT !.instant_fire = FALSE], out |-> "item"]
    ELSE IF s1.sleep # <<>> /\ t >= s1.sleep[1]
    THEN [s |-> [s1 EXCEPT !.sleep = <<>>], out |-> "item"]
    ELSE [s |-> s1, out |-> "pending"]

ScNew ==
    [s |-> new, clock |-> 0, alive |-> TRUE, out |-> "none",
     tog |-> FALSE, polls |-> 0, last |-> "none", from_fires |-> FALSE,
     fresh |-> TRUE, armed |-> <<>>]

ScIdle == [ScNew EXCEPT !.out = "idle", !.alive = FALSE]

\* A SqliteStore nobody has opened.
DbIdle == [pc |-> "idle", fk |-> FALSE, now |-> 0, files |-> {}, ext |-> {}, rows |-> {},
           op |-> "none", d |-> 0, ok |-> TRUE, tog |-> FALSE]

\* No download_mds call.
DlIdle == [pc |-> "idle", n |-> 0, chunksize |-> 0, chunks |-> <<>>, next |-> 1, inflight |-> {},
           got |-> <<>>, reqs |-> <<>>, stored |-> {}, returned |-> {}, ok |-> TRUE,
           peak |-> 0, dropped |-> FALSE]

\* No task of the DirMgr running.
LkIdle == [pc |-> [t \in {"fetch", "add", "user"} |-> "idle"], store |-> "", writer |-> "",
           readers |-> {}, attempts |-> 0]

\* No SOCKS connection.
SkIdle == [pc |-> "idle", t1 |-> "unborn", t2 |-> "unborn", r |-> FALSE, w |-> FALSE,
           client |-> "open", cbuf |-> 0, tor |-> "none", tbuf |-> 0, up |-> 0, down |-> 0]

\* A DirMgr whose NetDir slot nobody uses.
SlotIdle == [pc |-> [t \in {"load", "fetch", "add", "user"} |-> "off"], val |-> <<>>, old |-> <<>>,
             writer |-> "", readers |-> {}, was_some |-> FALSE,
             ret |-> <<>>, read |-> "never", after_some |-> FALSE]

\* A cache whose Microdescs table is empty.
MdbIdle == [rows |-> [d \in {1, 2} |-> <<>>], listed |-> [d \in {1, 2} |-> <<>>],
            now |-> 0, op |-> "", dropped |-> {}]

LateQuiet == db = DbIdle /\ dl = DlIdle /\ lk = LkIdle /\ sk = SkIdle /\ slot = SlotIdle /\ mdb = MdbIdle

\* The parts of the model that stand alone, not begun.
PureQuiet == cell = CellIdle /\ ring = RingIdle /\ sc = ScIdle /\ LateQuiet

(***************************************************************************)
(* States in which one of the two subsystems has not started.              *)
(***************************************************************************)
HsQuiet ==
    /\ pool = EmptyPool
    /\ hs_nd = [listed |-> {"c", "e", "f"}, timely |-> TRUE]
    /\ ev = NoEvent
    /\ launcher_handle = FALSE
    /\ sched = NewSchedule
    /\ ln = LnOff
    /\ tk = NoTake
    /\ ex = ExIdle

DirQuiet ==
    /\ now = 0
    /\ netdir = NoNetDir
    /\ store = [cons |-> [d \in Docs |-> "absent"], certs |-> {}, mds |-> {}]
    /\ fd = FdIdle
    /\ ld = LdIdle
    /\ rd = [called |-> FALSE, ret |-> "None", expired |-> FALSE]
    /\ fam = FamIdle

(***************************************************************************)
(* The directory manager's specifications.  Every one starts from any      *)
(* cache contents (at most one cached consensus, pending or usable, any    *)
(* cached authority certificates and microdescriptors) and no NetDir.      *)
(***************************************************************************)
InitStores ==
    {[cons |-> [d \in Docs |-> IF d = c THEN st ELSE "absent"],
      certs |-> cs, mds |-> ms] :
        c \in {0} \cup Docs, st \in {"pending", "usable"},
        cs \in SUBSET Authorities, ms \in SUBSET MDs}

InitDirMgr ==
    /\ now = 0
    /\ netdir = NoNetDir
    /\ store \in InitStores
    /\ fd = FdIdle
    /\ ld = LdIdle
    /\ rd = [called |-> FALSE, ret |-> "None", expired |-> FALSE]
    /\ fam = FamIdle
    /\ HsQuiet
    /\ PureQuiet

FetchDirCall ==
    \E use_cached \in BOOLEAN, parse_ok \in BOOLEAN : FetchDirBegin(use_cached, parse_ok)

LoadDirCall ==
    \E timely \in SUBSET Authorities, parse_ok \in BOOLEAN : LoadDirLoad(timely, parse_ok)

\* A fetch_directory call and a load_directory call, interleaved, as time passes.
NextDirMgr ==
    \/ FetchDirCall
    \/ FetchDirStep
    \/ LoadDirCall
    \/ LoadDirInstall
    \/ Tick

SpecDirMgr == InitDirMgr /\ [][NextDirMgr]_vars

\* A fetch_directory call alone.  The executor keeps polling the task, and
\* every request and every retry sleep it awaits completes (a request by its
\* own timeout at the latest): weak fairness of the call's steps.
NextFetch ==
    \/ FetchDirCall
    \/ FetchDirStep
    \/ Tick

FairSpecFetch == InitDirMgr /\ [][NextFetch]_vars /\ WF_vars(FetchDirStep)

\* A consumer reading the NetDir that load_directory installed from the cache.
NextDirRead ==
    \/ LoadDirCall
    \/ LoadDirInstall
    \/ NetdirRead
    \/ Tick

SpecDirRead == InitDirMgr /\ [][NextDirRead]_vars

(***************************************************************************)
(* Claims about the directory manager.                                     *)
(***************************************************************************)

\* C1: fetch_directory and load_directory write the shared NetDir only with a
\* NetDir that PartialDir::advance produced (enough microdescriptors) from a
\* consensus for which UnvalidatedDir::advance found no certificate missing
\* and check_signature succeeded; a call that returns an error (or, for
\* load_directory, false) has not written the shared NetDir.
C1_InstallOnlyValidated ==
    /\ fd.wrote => /\ fd.result = "ok"
                   /\ fd.checked /\ SigOk(fd.doc)
                   /\ HaveEnoughPaths(fd.doc, fd.mds)
    /\ ld.wrote => /\ ld.result = "true"
                   /\ ld.checked /\ SigOk(ld.doc)
                   /\ HaveEnoughPaths(ld.doc, ld.mds)
    /\ fd.result = "err" => ~fd.wrote
    /\ ld.result \in {"err", "false"} => ~ld.wrote
    /\ netdir # NoNetDir =>
          \/ fd.wrote /\ netdir = [doc |-> fd.doc, mds |-> fd.mds]
          \/ ld.wrote /\ netdir = [doc |-> ld.doc, mds |-> ld.mds]

\* fetch_directory replaced the NetDir that load_directory had installed.
C1_Witness ==
    /\ fd.wrote /\ ld.wrote
    /\ netdir = [doc |-> fd.doc, mds |-> fd.mds]
    /\ netdir.doc # ld.doc

\* C2: a fetch_directory call terminates, with Ok after it installed a NetDir
\* or with an error, whatever the cache holds and whatever the loads and
\* fetches answer; it never panics.
C2_FetchTerminates ==
    /\ [](fd.pc # "panic")
    /\ [](fd.pc = "done" => \/ fd.result = "ok" /\ fd.wrote /\ netdir # NoNetDir
                            \/ fd.result = "err")
    /\ ((fd.pc # "idle") ~> (fd.pc = "done"))

\* The call ended with the error of three failed consensus fetches.
C2_Witness ==
    fd.pc = "done" /\ fd.result = "err" /\ fd.sub = "consensus" /\ fd.last_err

\* C3: each sub-fetch makes at most 3 attempts, returns success right after
\* the first attempt that leaves nothing missing, and returns an error once 3
\* attempts have been made without getting there.
C3_AtMostThreeAttempts ==
    /\ fd.attempts <= 3
    \* between two attempts the condition does not hold yet
    /\ fd.pc = "sleep_consensus" => fd.doc = 0
    /\ (fd.pc = "sleep_certs" \/ (fd.pc = "fetch_certs" /\ fd.attempts > 0))
          => MissingCerts(fd.doc, fd.certs) # {}
    /\ (fd.pc = "sleep_mds" \/ (fd.pc = "fetch_mds" /\ fd.attempts > 0))
          => ~HaveEnoughPaths(fd.doc, fd.mds)
    \* a sub-fetch that returned success: after 1..3 attempts, condition met
    /\ (fd.pc = "unval_load" /\ fd.sub = "consensus")
          => fd.attempts \in 1..3 /\ fd.doc # 0
    /\ fd.pc = "advance"
          => fd.sub = "certs" /\ fd.attempts \in 1..3
             /\ MissingCerts(fd.doc, fd.certs) = {}
    /\ fd.pc = "install"
          => fd.sub = "mds" /\ fd.attempts \in 1..3
             /\ HaveEnoughPaths(fd.doc, fd.mds)
    \* a sub-fetch that returned an error: after exactly 3 attempts
    /\ (fd.result = "err" /\ fd.sub \in {"consensus", "certs", "mds"})
          => fd.attempts = 3

\* fetch_mds succeeded at its second attempt.
C3_Witness ==
    fd.pc = "install" /\ fd.sub = "mds" /\ fd.attempts = 2

\* C4: DirMgr::netdir fails with DirectoryExpired, rather than returning a
\* NetDir, when the time is past the installed NetDir's valid_until.
C4_ExpiredReadFails ==
    (rd.called /\ rd.expired) => rd.ret = "DirectoryExpired"

(***************************************************************************)
(* The circuit pool's specifications.  A pool's contents when a            *)
(* specification begins are circuits inserted earlier.                     *)
(***************************************************************************)
RECURSIVE BagsOver(_, _)
\* The pools of at most n circuits whose kinds are in K.
BagsOver(K, n) ==
    IF n = 0 THEN {EmptyPool}
    ELSE BagsOver(K, n - 1) \cup
         {PoolInsert(p, k) : p \in BagsOver(K, n - 1), k \in K}

Started == [LnOff EXCEPT !.pc = "waiting"]

\* The launcher alone, with a provider whose NetDir lists "c", "e", "f" and is
\* timely at some times and not at others; pooled circuits may close.
InitHsLauncher ==
    /\ DirQuiet
    /\ PureQuiet
    /\ pool \in BagsOver({[path |-> {"c", "e"}, closing |-> FALSE]}, MaxInitPool)
    /\ hs_nd = [listed |-> {"c", "e"}, timely |-> TRUE]
    /\ ev = NoEvent
    /\ launcher_handle = TRUE
    /\ sched = NewSchedule
    /\ ln = Started
    /\ tk = NoTake
    /\ ex = ExIdle

NextHsLauncher ==
    \/ (PoolLen(pool) <= MaxInitPool /\ LauncherPoll)
    \/ LauncherLoop
    \/ \E circ \in Kinds \cup {NoCirc} : LauncherBuildDone(circ)
    \/ SleepElapses
    \/ NetDirTimeliness
    \/ \E k \in Kinds : CircuitCloses(k)

SpecHsLauncher == InitHsLauncher /\ [][NextHsLauncher]_vars

\* The eviction task, with the directory changing and circuits closing.
InitHsEvict ==
    /\ DirQuiet
    /\ PureQuiet
    /\ pool \in BagsOver(Kinds, MaxPool)
    /\ hs_nd = [listed |-> {"c", "e", "f"}, timely |-> TRUE]
    /\ ev = NoEvent
    /\ launcher_handle = TRUE
    /\ sched = NewSchedule
    /\ ln = Started
    /\ tk = NoTake
    /\ ex = ExIdle

NextHsEvict ==
    \/ \E listed \in NetDirs, timely \in BOOLEAN : NetDirChange(listed, timely)
    \/ RemoveUnusableCircuits
    \/ \E k \in Kinds : CircuitCloses(k)

SpecHsEvict == InitHsEvict /\ [][NextHsEvict]_vars

\* Callers taking stub circuits, before and after launch_background_tasks,
\* with the launcher running; the pooled circuits have "e" as a hop.
InitHsTake ==
    /\ DirQuiet
    /\ PureQuiet
    /\ pool \in BagsOver({k \in Kinds : "e" \in k.path}, MaxPool)
    /\ hs_nd = [listed |-> {"c", "e", "f"}, timely |-> TRUE]
    /\ ev = NoEvent
    /\ launcher_handle = FALSE
    /\ sched = NewSchedule
    /\ ln = LnOff
    /\ tk = NoTake
    /\ ex = ExIdle

NextHsTake ==
    \/ LaunchBackgroundTasks
    \/ \E listed \in NetDirs, target \in Targets \cup {"none"} :
          \E found \in TakeOneWhere(pool, listed, target) :
             \E fresh \in FreshCircs(pool, launcher_handle, listed, target, found) :
                TakeStub(listed, target, found, fresh)
    \/ LauncherPoll
    \/ LauncherLoop
    \/ SleepElapses

SpecHsTake == InitHsTake /\ [][NextHsTake]_vars

\* Callers of get_or_launch_specific, one at a time, with open circuits in
\* the pool.
InitHsExtend ==
    /\ DirQuiet
    /\ PureQuiet
    /\ pool \in BagsOver({k \in Kinds : ~k.closing}, MaxExtendPool)
    /\ hs_nd = [listed |-> {"c", "e", "f"}, timely |-> TRUE]
    /\ ev = NoEvent
    /\ launcher_handle \in BOOLEAN
    /\ sched = NewSchedule
    /\ ln = IF launcher_handle THEN Started ELSE LnOff
    /\ tk = NoTake
    /\ ex = ExIdle

NextHsExtend ==
    \/ \E kind \in {"ClientRend", "SvcHsDir"}, listed \in NetDirs, target \in Targets :
          \E found \in TakeOneWhere(pool, listed, target) :
             \E fresh \in FreshCircs(pool, launcher_handle, listed, target, found),
                tmo \in TimeoutPairs :
                GetOrLaunchSpecific(kind, listed, target, found, fresh, tmo)
    \/ \E progress \in {"pending", "ok", "err"} : ExtendPoll(progress)

SpecHsExtend == InitHsExtend /\ [][NextHsExtend]_vars

(***************************************************************************)
(* The circuit pool's properties.                                          *)
(***************************************************************************)
\* C5: when an iteration of the launcher ends without having lacked a timely
\* NetDir, the pool holds at least TARGET_N = 8 circuits if no build failed,
\* and no build was attempted if the pool held 8 or more when it began.
C5_BuildsWhileBelowTarget ==
    (ln.done /\ ~ln.untimely) =>
        /\ ~ln.anyfail => ln.len_end >= TARGET_N
        /\ ln.len0 >= TARGET_N => ln.attempts = 0

\* C6: the step in which remove_unusable_circuits handles an event with a
\* timely NetDir leaves no closing circuit in the pool and no circuit with a
\* hop that NetDir does not list.
C6_EvictionLeavesUsable ==
    [][(ev.pending /\ ~ev'.pending /\ hs_nd.timely) =>
          \A k \in BagToSet(pool') : ~k.closing /\ k.path \subseteq hs_nd.listed]_vars

\* An event was handled with a timely NetDir: circuits were removed, others stay.
C6_Witness ==
    ev.handled /\ ~ev.pending /\ ev.timely /\ ev.evicted > 0 /\ PoolLen(pool) > 0

C8_AsStated ==
    tk.ret # "" => (tk.fired <=> (tk.len < 2 \/ ~tk.found))

\* C8: with "needed" meaning that after the take attempt the pool holds fewer
\* than 2 circuits or no compatible circuit was found: once
\* launch_background_tasks has been called the launcher is fired if and only
\* if needed, and before that the call fails with BadApiUsage, firing nothing,
\* if and only if needed; firing sends Fire to the launcher's schedule, and
\* the launcher's next poll of a schedule that holds a Fire begins an
\* iteration, whatever the state of the 30-second sleep.
C8_FiresWhenLowOrNotFound ==
    /\ [](tk.ret # "" =>
            /\ tk.fired <=> (tk.init /\ (tk.len < 2 \/ ~tk.found))
            /\ tk.ret = "bad_api_usage" <=> (~tk.init /\ (tk.len < 2 \/ ~tk.found)))
    /\ [][(tk' # tk /\ tk'.fired) => sched'.rx = Append(sched.rx, "Fire")]_vars
    /\ [][(tk' # tk /\ ~tk'.fired) => sched'.rx = sched.rx]_vars
    /\ [][(ln.pc = "waiting" /\ Len(sched.rx) > 0 /\ ln' # ln) =>
             (ln'.pc = "loop" /\ sched'.rx = <<>>)]_vars

\* A call that found a circuit fired the launcher, which then began an
\* iteration while its sleep was pending.
C8_Witness ==
    tk.fired /\ tk.found /\ ln.pc = "loop" /\ ln.early

C10_AsStated ==
    (ex.pc = "done" /\ ex.ret \in {"ok", "Protocol", "CircTimeout"}) =>
        /\ ex.ret = "CircTimeout" => ex.elapsed = ex.hard
        /\ ex.ret # "CircTimeout" => ex.elapsed <= ex.hard

\* C10: CircTimeout is reported exactly when the extension did not complete
\* within the first value of timeouts(action); the call then returns no
\* circuit and the pool is as the take left it.
C10_TimeoutAtFirstValue ==
    (ex.pc = "done" /\ ex.ret \in {"ok", "Protocol", "CircTimeout"}) =>
        /\ ex.ret = "CircTimeout" =>
              /\ ex.elapsed = ex.soft
              /\ ex.out = NoCirc
              /\ PoolLen(pool) = ex.len
        /\ ex.ret # "CircTimeout" => ex.elapsed <= ex.soft
        /\ ex.ret = "ok" <=> ex.out # NoCirc

\* The extension timed out at the first value, before the second.
C10_Witness ==
    ex.pc = "done" /\ ex.ret = "CircTimeout" /\ ex.soft < ex.hard

(***************************************************************************)
(* The directory manager's three writers of the shared NetDir together.    *)
(***************************************************************************)
FetchAdditionalCall ==
    \E got \in SUBSET MDs, store_ok \in BOOLEAN : FetchAdditionalUpdate(got, store_ok)

\* load_directory, fetch_directory and fetch_additional_microdescs, one call
\* of each, interleaved at their awaits.
NextDirWriters ==
    \/ FetchDirCall
    \/ FetchDirStep
    \/ LoadDirCall
    \/ LoadDirInstall
    \/ FetchAdditionalBegin
    \/ FetchAdditionalCall
    \/ Tick

SpecDirWriters == InitDirMgr /\ [][NextDirWriters]_vars

\* C11: the step in which load_directory writes the shared NetDir replaces
\* either no NetDir or one whose valid_until is strictly earlier than that of
\* the NetDir written.
C11_LoadReplacesOnlyOlder ==
    [][(ld.pc = "install" /\ ld'.pc = "done" /\ netdir.doc # 0) =>
          ValidUntil(netdir.doc) < ValidUntil(netdir'.doc)]_vars

\* C12: NoInformation::load yields the cached consensus only if it is valid
\* now, and SameState if the cache has none or the cached one is not valid
\* now (an error if its text cannot be read or parsed).  Accordingly a
\* load_directory call goes on to install only a consensus valid at the time,
\* and otherwise returns false (or that error) with the NetDir untouched; a
\* fetch_directory call that uses the cache takes from it only a consensus
\* valid at the time, and otherwise goes on to fetch_consensus (or returns
\* that error).
C12_LoadOnlyValidNow ==
    /\ [](\A pending \in BOOLEAN :
            LET c == LatestConsensus(pending) IN
            /\ NoInfoLoad(pending, TRUE) = "new" <=> (c # 0 /\ ValidNow(c))
            /\ NoInfoLoad(pending, TRUE) = "same" <=> (c = 0 \/ ~ValidNow(c))
            /\ c = 0 => NoInfoLoad(pending, FALSE) = "same"
            /\ NoInfoLoad(pending, FALSE) # "new")
    /\ [][(ld.pc = "idle" /\ ld'.pc # "idle") =>
            LET c == LatestConsensus(FALSE) IN
            /\ ld'.pc = "install" => (c # 0 /\ ValidNow(c) /\ ld'.doc = c)
            /\ c = 0 => (ld'.pc = "done" /\ ld'.result = "false")
            /\ (c # 0 /\ ~ValidNow(c)) =>
                  (ld'.pc = "done" /\ ld'.result \in {"false", "err"})
            /\ netdir' = netdir]_vars
    /\ [][(fd.pc = "idle" /\ fd'.pc # "idle") =>
            LET c == LatestConsensus(TRUE) IN
            /\ fd'.pc = "unval_load" => (c # 0 /\ ValidNow(c) /\ fd'.doc = c)
            /\ c = 0 => fd'.pc = "fetch_consensus"
            /\ (c # 0 /\ ~ValidNow(c)) =>
                  (fd'.pc = "fetch_consensus" \/ fd'.result = "err")
            /\ netdir' = netdir]_vars

\* load_directory returned false because the cached consensus is not valid
\* now, and fetch_directory, finding none valid, is fetching one.
C12_Witness ==
    /\ ld.pc = "done" /\ ld.result = "false"
    /\ LatestConsensus(FALSE) # 0 /\ ~ValidNow(LatestConsensus(FALSE))
    /\ fd.pc = "fetch_consensus"
    /\ netdir = NoNetDir

\* The relay messages the cell specification encodes: every variant, with
\* Data bodies on both sides of the longest body a cell holds.
MaxDataLen == 499

V4Addr == <<1, 2, 3, 4>>

V6Addr == Rep(1, 16)

Addrs == {<<>>, <<[ip |-> V4Addr, ttl |-> 256]>>, <<[ip |-> V6Addr, ttl |-> 256]>>}

Msg(variant, f) == [variant |-> variant, f |-> f]

Msgs ==
    {Msg("Begin", [addr |-> <<97>>, port |-> p, flags |-> fl]) :
        p \in {0, 80, 65535}, fl \in {0, 1}}
    \cup {Msg("Data", [body |-> Rep(7, n)]) : n \in {0, 1} \cup (493..MaxDataLen)}
    \cup {Msg("End", [reason |-> rs, addr |-> a]) :
            rs \in {REASON_MISC, REASON_EXITPOLICY}, a \in Addrs}
    \cup {Msg("Connected", [addr |-> a]) : a \in Addrs}
    \cup {Msg("Sendme", [digest |-> d]) : d \in {<<>>, <<Rep(9, 20)>>}}
    \cup {Msg("Extend", [addr |-> V4Addr, port |-> 9001,
                         handshake |-> Rep(5, TAP_C_HANDSHAKE_LEN), rsaid |-> Rep(3, 20)])}
    \cup {Msg("Extended", [handshake |-> Rep(5, TAP_S_HANDSHAKE_LEN)])}
    \cup {Msg("Extend2", [linkspec |-> ls, handshake_type |-> 2, handshake |-> h]) :
            ls \in {<<>>, <<[lstype |-> 0, body |-> V4Addr \o U16(9001)]>>},
            h \in {<<>>, Rep(5, 84)}}
    \cup {Msg("Extended2", [handshake |-> h]) : h \in {<<>>, Rep(5, 64)}}
    \cup {Msg("Truncate", <<>>), Msg("Drop", <<>>), Msg("BeginDir", <<>>)}
    \cup {Msg("Truncated", [reason |-> 1])}
    \cup {Msg("Resolve", [query |-> <<97, 46, 98>>])}
    \cup {Msg("Resolved", [answers |-> a]) :
            a \in {<<>>,
                   <<[rv |-> [kind |-> "Hostname", val |-> <<97>>], ttl |-> 60]>>,
                   <<[rv |-> [kind |-> "Ip", val |-> V4Addr], ttl |-> 60],
                     [rv |-> [kind |-> "Ip", val |-> V6Addr], ttl |-> 60]>>,
                   <<[rv |-> [kind |-> "TransientError"], ttl |-> 0],
                     [rv |-> [kind |-> "NontransientError"], ttl |-> 0]>>,
                   <<[rv |-> [kind |-> "Unrecognized", tp |-> 99, val |-> <<1>>], ttl |-> 1]>>}}
    \cup {Msg("Unrecognized", [cmd |-> 40, body |-> b]) : b \in {<<>>, <<1, 2>>}}

\* A cell is made of a stream ID and a message (RelayCell::new), then encoded,
\* then the encoding is decoded.
CellEncode ==
    /\ cell.pc = "new"
    /\ cell' = [cell EXCEPT
                  !.pc = IF Encode(cell.streamid, cell.msg).ok THEN "encoded" ELSE "rejected",
                  !.enc = Encode(cell.streamid, cell.msg)]
    /\ UNCHANGED <<dirVars, hsVars, fam, lateVars, ring, sc>>

CellDecode ==
    /\ cell.pc = "encoded"
    /\ cell' = [cell EXCEPT !.pc = "decoded", !.dec = Decode(cell.enc.raw)]
    /\ UNCHANGED <<dirVars, hsVars, fam, lateVars, ring, sc>>

InitRelayCell ==
    /\ DirQuiet
    /\ HsQuiet
    /\ ring = RingIdle
    /\ sc = ScIdle
    /\ LateQuiet
    /\ \E s \in 0..MaxStreamId, m \in Msgs :
          cell = [pc |-> "new", streamid |-> s, msg |-> m, enc |-> <<>>, dec |-> <<>>]

NextRelayCell == CellEncode \/ CellDecode

SpecRelayCell == InitRelayCell /\ [][NextRelayCell]_vars

Encoded == cell.pc \in {"encoded", "decoded"}

\* C13 as stated: an accepted message encodes to exactly 509 bytes, the encoded
\* message followed by at least 4 zero bytes, and every byte after those 4 is
\* filled from the random generator.
C13_AsStated ==
    Encoded =>
        LET e == cell.enc IN
        /\ Len(e.raw) = CELL_DATA_LEN
        /\ SubSeq(e.raw, 1, e.enc_len) = EncodeToVec(cell.streamid, cell.msg)
        /\ \A i \in (e.enc_len + 1)..(e.enc_len + 4) :
              i <= CELL_DATA_LEN /\ e.raw[i] = 0 /\ i \notin e.random
        /\ \A i \in (e.enc_len + 5)..CELL_DATA_LEN : i \in e.random

\* C13, amended: an accepted message encodes to exactly 509 bytes, the encoded
\* message followed by 4 zero bytes or, when fewer than 4 bytes are left, by
\* zero bytes up to byte 509; every byte after the 4 zero bytes, and no other,
\* is filled from the random generator.
C13_ZeroThenRandom ==
    Encoded =>
        LET e == cell.enc IN
        /\ Len(e.raw) = CELL_DATA_LEN
        /\ SubSeq(e.raw, 1, e.enc_len) = EncodeToVec(cell.streamid, cell.msg)
        /\ \A i \in (e.enc_len + 1)..CELL_DATA_LEN :
              IF i <= e.enc_len + 4 THEN e.raw[i] = 0 /\ i \notin e.random
              ELSE i \in e.random
        /\ e.random \subseteq (e.enc_len + 5)..CELL_DATA_LEN

\* A full Data cell (498 bytes of body) was encoded: no padding at all; and the
\* states in which some padding is random exist too.
C13_Witness ==
    /\ Encoded
    /\ cell.msg.variant = "Data"
    /\ cell.enc.enc_len = CELL_DATA_LEN
    /\ cell.enc.random = {}

\* C14: decoding the encoding of (s, m) succeeds and gives back s and m.
C14_RoundTrip ==
    cell.pc = "decoded" =>
        /\ cell.dec.ok
        /\ cell.dec.streamid = cell.streamid
        /\ cell.dec.msg.variant = cell.msg.variant
        /\ cell.dec.msg.f = cell.msg.f

\* The ring parameters of one consensus are computed.
ComputeRing ==
    /\ ring.pc = "new"
    /\ ring' = [ring EXCEPT !.pc = "done",
                            !.rings = compute_ring_parameters(ring.consensus, ring.hsdir_interval)]
    /\ UNCHANGED <<dirVars, hsVars, fam, lateVars, cell, sc>>

InitRing ==
    /\ DirQuiet
    /\ HsQuiet
    /\ cell = CellIdle
    /\ sc = ScIdle
    /\ LateQuiet
    /\ \E c \in Consensuses, m \in {120, 1440} :
          ring = [pc |-> "new", consensus |-> c, hsdir_interval |-> m, rings |-> <<>>]

SpecRing == InitRing /\ [][ComputeRing]_vars

\* C15: the primary period has length T = hsdir_interval minutes, is offset by
\* 12 voting periods, has number floor((valid_after - offset) / T) and
\* contains valid_after.
C15_PrimaryPeriodNumber ==
    ring.pc = "done" =>
        LET lt == ring.consensus.lifetime
            T == ring.hsdir_interval * 60
            offset == 12 * (lt.fresh_until - lt.valid_after)
            p == ring.rings.main_ring.time_period
        IN  /\ p.length = T
            /\ p.offset = offset
            /\ p.interval_num = (lt.valid_after - offset) \div T
            /\ offset + p.interval_num * T <= lt.valid_after
            /\ lt.valid_after < offset + (p.interval_num + 1) * T

C15_Witness ==
    /\ ring.pc = "done"
    /\ ring.hsdir_interval = 120
    /\ ring.consensus.lifetime.fresh_until - ring.consensus.lifetime.valid_after = 22 * 60
    /\ PeriodStart(ring.rings.main_ring.time_period) < ring.consensus.lifetime.valid_after

Example == ring.consensus = ExampleConsensus /\ ring.hsdir_interval = 1440

\* C16 as stated: for the example consensus the primary period starts at
\* 1985-10-25 07:00 and has SRV1; there is one secondary ring, with SRV2.
C16_AsStated ==
    (ring.pc = "done" /\ Example) =>
        /\ PeriodStart(ring.rings.main_ring.time_period) = ExampleValidAfter
        /\ ring.rings.main_ring.shared_rand = SRV1
        /\ Len(ring.rings.other_rings) = 1
        /\ ring.rings.other_rings[1].shared_rand = SRV2

\* C16, amended: for the example consensus the primary period is the one-day
\* period that contains 1985-10-25 07:00, which starts at 1985-10-24 12:00,
\* and has SRV1; there is one secondary ring, for the period that starts at
\* 1985-10-25 12:00, with SRV2.
C16_ExampleRings ==
    (ring.pc = "done" /\ Example) =>
        /\ PeriodStart(ring.rings.main_ring.time_period)
              = start_of_day_containing(ExampleValidAfter) - 12 * 3600
        /\ ring.rings.main_ring.time_period.length = ONE_DAY
        /\ ring.rings.main_ring.shared_rand = SRV1
        /\ Len(ring.rings.other_rings) = 1
        /\ PeriodStart(ring.rings.other_rings[1].time_period)
              = start_of_day_containing(ExampleValidAfter) + 12 * 3600
        /\ ring.rings.other_rings[1].shared_rand = SRV2

C16_Witness == ring.pc = "done" /\ Example /\ Len(ring.rings.other_rings) = 1

\* C17: the primary ring has an SRV whose validity range contains the start of
\* the current period, or the disaster SRV when no listed SRV covers it; there
\* is a secondary ring for the previous, and for the next, period exactly when
\* a listed SRV covers that period's start, it has such an SRV, and it never
\* has the disaster SRV.
C17_RingSrvs ==
    ring.pc = "done" =>
        LET srvs == extract_srvs(ring.consensus)
            main == ring.rings.main_ring
            others == ring.rings.other_rings
            covers(p) == {srvs[i].value : i \in Covering(srvs, PeriodStart(p))}
            near == {[main.time_period EXCEPT !.interval_num = @ + d] : d \in {-1, 1}}
        IN  /\ IF covers(main.time_period) = {}
               THEN main.shared_rand = disaster_srv(main.time_period)
               ELSE main.shared_rand \in covers(main.time_period)
            /\ \A p \in near :
                  (\E i \in 1..Len(others) : others[i].time_period = p) <=> covers(p) # {}
            /\ \A i \in 1..Len(others) :
                  /\ others[i].time_period \in near
                  /\ others[i].shared_rand \in covers(others[i].time_period)
                  /\ others[i].shared_rand.name # "disaster"
            /\ Len(others) <= 2

C17_Witness ==
    /\ ring.pc = "done"
    /\ ring.rings.main_ring.shared_rand.name = "disaster"
    /\ Len(ring.rings.other_rings) = 1

\* schedule.next() is polled.
ScPoll ==
    /\ sc.out # "end"
    /\ LET r == poll_next(sc.s, sc.clock, sc.alive) IN
       sc' = [sc EXCEPT
                !.s = r.s, !.out = r.out, !.tog = ~@,
                !.from_fires = IdleAndFired(sc.s),
                !.last = IF sc.s.rx = <<>> THEN "none" ELSE sc.s.rx[Len(sc.s.rx)].cmd,
                !.polls = IF @ < 2 THEN @ + 1 ELSE @,
                !.armed = IF @ # <<>> /\ r.out = "item"
                          THEN <<[@[1] EXCEPT !.items = @ + 1]>> ELSE @]
    /\ UNCHANGED <<dirVars, hsVars, fam, lateVars, cell, ring>>

\* TaskHandle::fire, fire_at(now + d) and cancel: unbounded_send.
ScSend(cmd, d) ==
    /\ sc.alive
    /\ sc.out # "end"
    /\ Len(sc.s.rx) < MaxScRx
    /\ sc' = [sc EXCEPT
                !.s.rx = Append(@, Cmd(cmd, IF cmd = "FireAt" THEN sc.clock + d ELSE 0)),
                !.fresh = FALSE,
                !.armed = IF cmd = "FireAt"
                          THEN <<[instant |-> sc.clock + d, quiet |-> TRUE, items |-> 0]>>
                          ELSE <<>>]
    /\ UNCHANGED <<dirVars, hsVars, fam, lateVars, cell, ring>>

\* The owner of the schedule calls fire_in(d).
ScFireIn(d) ==
    /\ sc.out # "end"
    /\ sc' = [sc EXCEPT
                !.s = fire_in(@, sc.clock, d),
                !.fresh = FALSE,
                !.armed = <<[instant |-> sc.clock + d, quiet |-> sc.s.rx = <<>>, items |-> 0]>>]
    /\ UNCHANGED <<dirVars, hsVars, fam, lateVars, cell, ring>>

\* The owner of the schedule calls fire().
ScFire ==
    /\ sc.out # "end"
    /\ sc' = [sc EXCEPT !.s = fire(@), !.fresh = FALSE, !.armed = <<>>]
    /\ UNCHANGED <<dirVars, hsVars, fam, lateVars, cell, ring>>

\* The last TaskHandle is dropped.
ScDropHandle ==
    /\ sc.alive
    /\ sc' = [sc EXCEPT !.alive = FALSE]
    /\ UNCHANGED <<dirVars, hsVars, fam, lateVars, cell, ring>>

\* Time passes.
ScTick ==
    /\ sc.clock < MaxClock
    /\ sc' = [sc EXCEPT !.clock = @ + 1]
    /\ UNCHANGED <<dirVars, hsVars, fam, lateVars, cell, ring>>

InitSchedule ==
    /\ DirQuiet
    /\ HsQuiet
    /\ cell = CellIdle
    /\ ring = RingIdle
    /\ LateQuiet
    /\ sc = ScNew

NextSchedule ==
    \/ ScPoll
    \/ \E d \in 0..MaxDelay : ScSend("FireAt", d)
    \/ ScSend("Fire", 0)
    \/ ScSend("Cancel", 0)
    \/ \E d \in 0..MaxDelay : ScFireIn(d)
    \/ ScFire
    \/ ScDropHandle
    \/ ScTick

SpecSchedule == InitSchedule /\ [][NextSchedule]_vars

\* C18: with a TaskHandle alive and nothing sent or set since new, the first
\* poll yields an item and the second is Pending.
C18_NewFiresOnce ==
    [][(sc'.tog # sc.tog /\ sc.fresh /\ sc.alive) =>
          /\ sc.polls = 0 => sc'.out = "item"
          /\ sc.polls = 1 => sc'.out = "pending"]_vars

C18_Witness ==
    sc.fresh /\ sc.alive /\ sc.polls = 2 /\ sc.out = "pending" /\ sc.clock > 0

\* C19 as stated: a poll that finds the schedule idle and one or more Fire
\* commands delivered yields an item, and the poll after it is Pending.
C19_AsStated ==
    [][(sc'.tog # sc.tog /\ IdleAndFired(sc.s)) =>
          /\ sc'.out = "item"
          /\ poll_next(sc'.s, sc'.clock, sc'.alive).out = "pending"]_vars

\* C19, amended: while a TaskHandle is alive, a poll that finds the schedule
\* idle and one or more Fire commands delivered yields an item, and the poll
\* after it is Pending when nothing was sent or set in between.
C19_FireConsumedByPoll ==
    [][(sc'.tog # sc.tog /\ IdleAndFired(sc.s) /\ sc.alive) =>
          /\ sc'.out = "item"
          /\ \A t \in sc'.clock..MaxClock : poll_next(sc'.s, t, TRUE).out = "pending"]_vars

C19_Witness ==
    sc.from_fires /\ sc.alive /\ sc.out = "item" /\ sc.polls = 2 /\ sc.s.rx = <<>>

\* C20 as stated: after fire_in(d) or fire_at(now + d) and nothing sent or set
\* later, a poll before d has elapsed yields no item, the first poll once d
\* has elapsed yields one, and no poll after that yields another.
C20_AsStated ==
    [][(sc'.tog # sc.tog /\ sc.armed # <<>>) =>
          IF sc.clock < sc.armed[1].instant \/ sc.armed[1].items > 0
          THEN sc'.out # "item" ELSE sc'.out = "item"]_vars

\* C20, amended: the same, while a TaskHandle is alive and, for fire_in, when
\* every command sent before it had been handled by a poll.
C20_FiresOnceAfterDelay ==
    [][(sc'.tog # sc.tog /\ sc.armed # <<>> /\ sc.alive /\ sc.armed[1].quiet) =>
          IF sc.clock < sc.armed[1].instant \/ sc.armed[1].items > 0
          THEN sc'.out = "pending" ELSE sc'.out = "item"]_vars

C20_Witness ==
    /\ sc.armed # <<>>
    /\ sc.armed[1].quiet
    /\ sc.armed[1].items = 1
    /\ sc.armed[1].instant > 0
    /\ sc.alive
    /\ sc.out = "pending"

\* The last command in rx, and the poll of a schedule that received it alone.
LastCmd == sc.s.rx[Len(sc.s.rx)]

PollOfLastAlone == poll_next([new EXCEPT !.rx = <<LastCmd>>], sc.clock, sc.alive)

\* No firing is pending in schedule s: no poll from time t on yields an item.
NothingPending(s, t) ==
    \A u \in t..(MaxClock + MaxDelay) : poll_next(s, u, TRUE).out = "pending"

\* C21 as stated: a poll applies the commands in rx in order, so that the last
\* alone determines the schedule and what the poll yields; after a last
\* Cancel nothing is yielded, then or later; after a last Fire the poll yields
\* one item and nothing is yielded later.
C21_AsStated ==
    [][(sc'.tog # sc.tog /\ sc.s.rx # <<>>) =>
          /\ sc'.s = PollOfLastAlone.s
          /\ sc'.out = PollOfLastAlone.out
          /\ LastCmd.cmd = "Cancel" => sc'.out # "item" /\ NothingPending(sc'.s, sc.clock)
          /\ LastCmd.cmd = "Fire" => sc'.out = "item" /\ NothingPending(sc'.s, sc.clock)]_vars

\* C21, amended: the same, for a poll at which a TaskHandle is alive.
C21_LastCommandWins ==
    [][(sc'.tog # sc.tog /\ sc.s.rx # <<>> /\ sc.alive) =>
          /\ sc'.s = PollOfLastAlone.s
          /\ sc'.out = PollOfLastAlone.out
          /\ LastCmd.cmd = "Cancel" => sc'.out = "pending" /\ NothingPending(sc'.s, sc.clock)
          /\ LastCmd.cmd = "Fire" => sc'.out = "item" /\ NothingPending(sc'.s, sc.clock)
          /\ LastCmd.cmd = "FireAt" =>
                sc'.out = (IF sc.clock >= LastCmd.instant THEN "item" ELSE "pending")]_vars

\* A delayed firing was cancelled and its deadline has passed without an item.
C21_Witness ==
    /\ sc.last = "Cancel"
    /\ sc.alive
    /\ sc.out = "pending"
    /\ sc.clock = MaxClock
    /\ sc.s.sleep = <<>>

\* C22: a poll after the last TaskHandle was dropped returns end of stream,
\* whatever firing is pending and whatever commands are left in rx.
C22_EndOfStreamWhenDropped ==
    [][(sc'.tog # sc.tog /\ ~sc.alive) => sc'.out = "end"]_vars

\* The stream has ended with an instant firing pending.
C22_Witness == sc.out = "end" /\ ~sc.alive /\ sc.s.instant_fire


(***************************************************************************)
(* SqliteStore in isolation: the ExtDocs and Consensuses tables, the blob  *)
(* files, and calls that fail part-way.  A consensus is named by its       *)
(* digest; its times are those of ValidAfter and ValidUntil; one unit of   *)
(* db.now is one day.  db.fk tells whether the sqlite build enforces       *)
(* foreign keys: the schema declares ON DELETE CASCADE and the store sets  *)
(* no pragma, so either is possible.                                       *)
(***************************************************************************)
MaxStoreDocs == 2

MaxStoreTime == 5

FourDays == 4

StoreDocs == 1..MaxStoreDocs

\* store_consensus: expires = valid_until + 4 days, of the valid_until it stores.
Expires(d) == StoredValidUntil(d) + FourDays

\* Where store_consensus can return early with an error: at fs::write, or at
\* one of unchecked_transaction, the two INSERTs and commit, which all leave
\* the transaction rolled back and the Unlinker to be dropped.
FailPoints == {"none", "write", "transaction"}

\* INSERT OR REPLACE INTO ExtDocs: digest is the primary key, so a row of the
\* same digest is deleted first, and with foreign keys enforced the
\* Consensuses rows that reference it go with it.
INSERT_EXTDOC(b, d) ==
    [b EXCEPT !.ext = @ \cup {d},
              !.rows = IF b.fk /\ d \in b.ext THEN {r \in @ : r[1] # d} ELSE @]

\* INSERT OR REPLACE INTO Consensuses: the table has no key, so nothing is
\* ever replaced.  Rows are <<digest, pending>>.
INSERT_CONSENSUS(b, d, pending) == [b EXCEPT !.rows = @ \cup {<<d, pending>>}]

\* Unlinker::drop without forget: remove_file, its error ignored.
UnlinkerDrop(b, d, unlink_ok) == IF unlink_ok THEN [b EXCEPT !.files = @ \ {d}] ELSE b

\* std::fs::write: creates or truncates the file; a failing write may
\* have created it already.
FsWrite(b, d, ok, created) ==
    IF ok \/ created THEN [b EXCEPT !.files = @ \cup {d}] ELSE b

\* store_consensus with save_blob_internal inlined, returning early at `fail`.
store_consensus(b, d, pending, fail, created, unlink_ok) ==
    LET written == FsWrite(b, d, fail # "write", created)
    IN  IF fail = "none"
        THEN INSERT_CONSENSUS(INSERT_EXTDOC(written, d), d, pending)
        ELSE UnlinkerDrop(written, d, unlink_ok)

\* MARK_CONSENSUS_NON_PENDING.
mark_consensus_usable(b, d, ok) ==
    IF ok
    THEN [b EXCEPT !.rows = {<<r[1], IF r[1] = d THEN FALSE ELSE r[2]>> : r \in @}]
    ELSE b

\* FIND_EXPIRED_EXTDOCS.
ExpiredBlobs(b) == {d \in b.ext : Expires(d) < b.now}

\* DROP_OLD_CONSENSUSES.
OldConsensuses(b) == {r \in b.rows : StoredValidUntil(r[1]) < b.now - TwoDays}

\* expire_all: one transaction, then the blob files of the expired ExtDocs.
expire_all(b, ok, unlink_ok) ==
    IF ~ok THEN b
    ELSE [b EXCEPT
            !.ext = @ \ ExpiredBlobs(b),
            !.rows = {r \in @ : ~(b.fk /\ r[1] \in ExpiredBlobs(b))} \ OldConsensuses(b),
            !.files = IF unlink_ok THEN @ \ ExpiredBlobs(b) ELSE @]

\* The row of the latest valid_until among `rows'.
LatestExpiring(rows) ==
    CHOOSE r \in rows : \A q \in rows : StoredValidUntil(q[1]) <= StoredValidUntil(r[1])

\* latest_consensus: FIND_CONSENSUS, then read_blob.
latest_consensus(b, pending) ==
    LET found == {r \in b.rows : r[2] = pending /\ r[1] \in b.ext}
    IN  IF found = {} THEN [ok |-> TRUE, val |-> <<>>]
        ELSE IF LatestExpiring(found)[1] \in b.files
             THEN [ok |-> TRUE, val |-> <<LatestExpiring(found)[1]>>]
             ELSE [ok |-> FALSE, val |-> <<>>]

\* latest_consensus_time: FIND_LATEST_CONSENSUS_TIME.
latest_consensus_time(b) ==
    LET found == {r \in b.rows : r[2] = FALSE}
    IN  IF found = {} THEN <<>> ELSE <<ValidAfter(LatestExpiring(found)[1])>>

DbCall(b, op, d, ok) == [b EXCEPT !.op = op, !.d = d, !.ok = ok, !.tog = ~db.tog]

DbStoreConsensus(d, pending, fail, created, unlink_ok) ==
    /\ db' = DbCall(store_consensus(db, d, pending, fail, created, unlink_ok),
                    IF pending THEN "store_pending" ELSE "store_usable", d, fail = "none")
    /\ UNCHANGED <<dirVars, hsVars, fam, cell, ring, sc, dl, lk, sk, slot, mdb>>

DbMarkConsensusUsable(d, ok) ==
    /\ db' = DbCall(mark_consensus_usable(db, d, ok), "mark_usable", d, ok)
    /\ UNCHANGED <<dirVars, hsVars, fam, cell, ring, sc, dl, lk, sk, slot, mdb>>

DbExpireAll(ok, unlink_ok) ==
    /\ db' = DbCall(expire_all(db, ok, unlink_ok), "expire_all", 0, ok)
    /\ UNCHANGED <<dirVars, hsVars, fam, cell, ring, sc, dl, lk, sk, slot, mdb>>

\* Time passes.
DbTick ==
    /\ db.now < MaxStoreTime
    /\ db' = [db EXCEPT !.now = @ + 1]
    /\ UNCHANGED <<dirVars, hsVars, fam, cell, ring, sc, dl, lk, sk, slot, mdb>>

InitStore ==
    /\ DirQuiet
    /\ HsQuiet
    /\ cell = CellIdle
    /\ ring = RingIdle
    /\ sc = ScIdle
    /\ dl = DlIdle
    /\ lk = LkIdle
    /\ sk = SkIdle
    /\ slot = SlotIdle
    /\ mdb = MdbIdle
    /\ \E fk \in BOOLEAN : db = [DbIdle EXCEPT !.pc = "open", !.fk = fk]

NextStore ==
    \/ \E d \in StoreDocs, pending \in BOOLEAN, fail \in FailPoints, created, unlink_ok \in BOOLEAN :
          DbStoreConsensus(d, pending, fail, created, unlink_ok)
    \/ \E d \in StoreDocs, ok \in BOOLEAN : DbMarkConsensusUsable(d, ok)
    \/ \E ok, unlink_ok \in BOOLEAN : DbExpireAll(ok, unlink_ok)
    \/ DbTick

SpecStore == InitStore /\ [][NextStore]_vars

\* The call that just returned.
Returned(op) == db'.tog # db.tog /\ db'.op = op /\ db'.ok

\* `d' expires latest among the rows of its pending status.
LatestOfItsKind(b, d, pending) ==
    \A r \in b.rows : r[2] = pending => StoredValidUntil(r[1]) <= StoredValidUntil(d)

\* C23: once store_consensus(d, pending = true) has returned Ok,
\* latest_consensus(true) returns d (when no pending consensus expires
\* later), latest_consensus(false) does not return d and
\* latest_consensus_time is not d's valid-after; once mark_consensus_usable(d)
\* has returned Ok for a stored d, latest_consensus(false) returns d and
\* latest_consensus_time its valid-after (when no usable consensus expires
\* later), and latest_consensus(true) does not return d.
C23_PendingThenUsable ==
    [][/\ Returned("store_pending") =>
            /\ LatestOfItsKind(db', db'.d, TRUE) =>
                  latest_consensus(db', TRUE) = [ok |-> TRUE, val |-> <<db'.d>>]
            /\ latest_consensus(db', FALSE).val # <<db'.d>>
            /\ latest_consensus_time(db') # <<ValidAfter(db'.d)>>
       /\ (Returned("mark_usable") /\ \E r \in db.rows : r[1] = db'.d) =>
            /\ LatestOfItsKind(db', db'.d, FALSE) =>
                  /\ latest_consensus(db', FALSE) = [ok |-> TRUE, val |-> <<db'.d>>]
                  /\ latest_consensus_time(db') = <<ValidAfter(db'.d)>>
            /\ latest_consensus(db', TRUE).val # <<db'.d>>]_vars

\* C24: expire_all removes a row of the Consensuses table only when now is
\* more than two days past the valid-until of the consensus's lifetime, and
\* removes every row for which it is.
C24_ExpiresTwoDaysPastValidUntil ==
    [][Returned("expire_all") =>
          \A r \in db.rows :
              r \notin db'.rows <=> db.now > ValidUntil(r[1]) + TwoDays]_vars

\* C25: every Consensuses row references an ExtDocs row, every ExtDocs
\* row's blob file exists, and a store_consensus that failed has left the
\* tables and the blob directory as they were.
C25_NoHalfWrittenEntry ==
    /\ \A r \in db.rows : r[1] \in db.ext
    /\ \A d \in db.ext : d \in db.files

\* The last part of C25 on its own: a store_consensus that returned an error
\* changed neither table and no blob file.
C25_FailedStoreLeavesNothing ==
    [][(db'.tog # db.tog /\ db'.op \in {"store_pending", "store_usable"} /\ ~db'.ok) =>
          /\ db'.rows = db.rows
          /\ db'.ext = db.ext
          /\ db'.files = db.files]_vars


(***************************************************************************)
(* download_mds.  The digests of the sorted list `missing' are named by    *)
(* their rank 1..n: the list comes from missing_microdescs, which yields   *)
(* each missing digest once.  0 and n + 1 are digests not in the list.  A  *)
(* chunk is the range lo..hi of the ranks it holds.                        *)
(*   next      the chunk the stream of requests yields next                *)
(*   inflight  the requests buffer_unordered is polling                    *)
(*   got       per chunk, whether its request is over and its my_new_mds   *)
(*   reqs      history: the resource of each request made, in order        *)
(*   peak      history: the most requests in flight at once                *)
(*   dropped   history: some response carried a microdesc not asked for    *)
(***************************************************************************)
MaxMissing == 2001

n_parallel_requests == 4

Min(a, b) == IF a < b THEN a ELSE b

\* A chunk size without the cap on the size of a request.
chunksize_uncapped(len) == (len + 2) \div 3

\* let chunksize = min(500, (missing.len() + 2) / 3).
chunksize(len) == Min(500, (len + 2) \div 3)

\* missing[..].chunks(size): consecutive runs of `size', the last one shorter.
Chunks(n, size) ==
    [i \in 1..((n + size - 1) \div size) |->
        [lo |-> (i - 1) * size + 1, hi |-> Min(i * size, n)]]

\* The lengths of `missing' tried: none, few, and enough for three, four
\* and five requests.
MissingLens == {0, 1, 2, 4, 1500, 1501, MaxMissing}

\* What a response to the request of `chunk' may carry: a microdesc of
\* the chunk, one of the next chunk, and one of no chunk.
Responses(chunk) == SUBSET {0, chunk.hi, chunk.hi + 1}

\* my_new_mds: the microdescs of the response that `want' contains.
MyNewMds(chunk, ok, resp) ==
    IF ok THEN {d \in resp : chunk.lo <= d /\ d <= chunk.hi} ELSE {}

\* new_mds flattened.
Flattened(got) == UNION {got[i].mds : i \in DOMAIN got}

\* missing.sort_unstable(), the early return for an empty list, the chunks.
DlSplit ==
    /\ dl.pc = "new"
    /\ dl' = IF dl.n = 0
             THEN [dl EXCEPT !.pc = "done"]
             ELSE [dl EXCEPT
                     !.pc = "fetching",
                     !.chunksize = chunksize(dl.n),
                     !.chunks = Chunks(dl.n, chunksize(dl.n)),
                     !.got = [i \in DOMAIN Chunks(dl.n, chunksize(dl.n)) |->
                                 [done |-> FALSE, mds |-> {}]]]
    /\ UNCHANGED <<dirVars, hsVars, fam, cell, ring, sc, db, lk, sk, slot, mdb>>

\* buffer_unordered takes the next request from the stream and starts it:
\* get_resource is called with the digests of the chunk.
DlStart ==
    /\ dl.pc = "fetching"
    /\ dl.next <= Len(dl.chunks)
    /\ Cardinality(dl.inflight) < n_parallel_requests
    /\ dl' = [dl EXCEPT
                !.inflight = @ \cup {dl.next},
                !.reqs = Append(@, dl.chunks[dl.next]),
                !.next = @ + 1,
                !.peak = IF Cardinality(dl.inflight) + 1 > @
                         THEN Cardinality(dl.inflight) + 1 ELSE @]
    /\ UNCHANGED <<dirVars, hsVars, fam, cell, ring, sc, db, lk, sk, slot, mdb>>

\* get_resource returns for request i, with an error or a response.
DlRespond(i, ok, resp) ==
    /\ dl.pc = "fetching"
    /\ i \in dl.inflight
    /\ resp \in Responses(dl.chunks[i])
    /\ dl' = [dl EXCEPT
                !.inflight = @ \ {i},
                !.got[i] = [done |-> TRUE, mds |-> MyNewMds(dl.chunks[i], ok, resp)],
                !.dropped = @ \/ (ok /\ resp # MyNewMds(dl.chunks[i], ok, resp))]
    /\ UNCHANGED <<dirVars, hsVars, fam, cell, ring, sc, db, lk, sk, slot, mdb>>

\* The stream is exhausted: store_microdescs under the store's lock, then
\* the microdescs are returned.
DlStore(store_ok) ==
    /\ dl.pc = "fetching"
    /\ dl.next > Len(dl.chunks)
    /\ dl.inflight = {}
    /\ dl' = [dl EXCEPT
                !.pc = "done",
                !.ok = store_ok,
                !.stored = IF store_ok THEN Flattened(dl.got) ELSE {},
                !.returned = IF store_ok THEN Flattened(dl.got) ELSE {}]
    /\ UNCHANGED <<dirVars, hsVars, fam, cell, ring, sc, db, lk, sk, slot, mdb>>

InitDownloadMds ==
    /\ DirQuiet
    /\ HsQuiet
    /\ cell = CellIdle
    /\ ring = RingIdle
    /\ sc = ScIdle
    /\ db = DbIdle
    /\ lk = LkIdle
    /\ sk = SkIdle
    /\ slot = SlotIdle
    /\ mdb = MdbIdle
    /\ \E n \in MissingLens : dl = [DlIdle EXCEPT !.pc = "new", !.n = n]

NextDownloadMds ==
    \/ DlSplit
    \/ DlStart
    \/ \E i \in dl.inflight, ok \in BOOLEAN :
          \E resp \in Responses(dl.chunks[i]) : DlRespond(i, ok, resp)
    \/ \E store_ok \in BOOLEAN : DlStore(store_ok)

SpecDownloadMds == InitDownloadMds /\ [][NextDownloadMds]_vars

\* How many of the requests made asked for digest d.
TimesRequested(d) ==
    Cardinality({i \in 1..Len(dl.reqs) : dl.reqs[i].lo <= d /\ d <= dl.reqs[i].hi})

\* C26: once download_mds is over every digest of the list has been asked
\* for in exactly one request; no request asks for more than 500 digests;
\* at most 4 requests are in flight; the chunk size of a non-empty list is
\* at least 1; and what a request yields, and so what is stored and
\* returned, are microdescs whose digests that request asked for.
C26_ChunkedRequests ==
    /\ dl.pc = "done" => \A d \in 1..dl.n : TimesRequested(d) = 1
    /\ \A i \in 1..Len(dl.reqs) :
          /\ dl.reqs[i].hi - dl.reqs[i].lo + 1 <= 500
          /\ dl.reqs[i].lo <= dl.reqs[i].hi
          /\ dl.got[i].mds \subseteq dl.reqs[i].lo..dl.reqs[i].hi
    /\ Cardinality(dl.inflight) <= 4
    /\ (dl.pc \in {"fetching", "done"} /\ dl.n > 0) => dl.chunksize >= 1
    /\ dl.stored \subseteq Flattened(dl.got)
    /\ dl.returned \subseteq Flattened(dl.got)

\* Five requests were made, four of them at once, a response carried
\* microdescs that were not asked for, and the others were stored.
C26_Witness ==
    /\ dl.pc = "done"
    /\ dl.n = MaxMissing
    /\ Len(dl.reqs) = 5
    /\ dl.peak = n_parallel_requests
    /\ dl.dropped
    /\ dl.stored # {}
    /\ dl.returned = dl.stored


(***************************************************************************)
(* The locks of the DirMgr: store (a Mutex) and netdir (an RwLock), with   *)
(* three tasks: "fetch" runs NoInformation::fetch_consensus, "add" runs    *)
(* fetch_additional_microdescs with its download_mds, "user" calls         *)
(* DirMgr::netdir over and over.  lk.pc[t] is the await or the block task  *)
(* t is at; "net" is an await of get_resource, "sleep" of task::sleep.     *)
(*   store     the task holding the MutexGuard, "" for none                *)
(*   writer    the task holding the RwLockWriteGuard, "" for none          *)
(*   readers   the tasks holding an RwLockReadGuard                        *)
(***************************************************************************)
\* A guard that outlives its block.
StoreStillLocked(l) == l

\* The MutexGuard is dropped: at the end of its block, or by `?'.
StoreUnlock(l) == [l EXCEPT !.store = ""]

\* The RwLockReadGuard of `t' is dropped.
ReadUnlock(l, t) == [l EXCEPT !.readers = @ \ {t}]

\* The RwLockWriteGuard is dropped.
WriteUnlock(l) == [l EXCEPT !.writer = ""]

LkAt(l, t, pc) == [l EXCEPT !.pc[t] = pc]

\* fetch_consensus_once: store.lock().await of the first block.
FcLock ==
    /\ lk.pc["fetch"] = "begin"
    /\ lk.store = ""
    /\ lk' = LkAt([lk EXCEPT !.store = "fetch"], "fetch", "time")
    /\ UNCHANGED <<dirVars, hsVars, fam, cell, ring, sc, db, dl, sk, slot, mdb>>

\* latest_consensus_time()?, the end of the block, then get_resource is
\* called; on an error fetch_consensus goes to its retry delay.
FcTime(ok) ==
    /\ lk.pc["fetch"] = "time"
    /\ lk' = LkAt(StoreUnlock(lk), "fetch", IF ok THEN "net" ELSE "sleep")
    /\ UNCHANGED <<dirVars, hsVars, fam, cell, ring, sc, db, dl, sk, slot, mdb>>

\* get_resource returns; the response is parsed and checked.
FcNet(ok) ==
    /\ lk.pc["fetch"] = "net"
    /\ lk' = LkAt(lk, "fetch", IF ok THEN "lock" ELSE "sleep")
    /\ UNCHANGED <<dirVars, hsVars, fam, cell, ring, sc, db, dl, sk, slot, mdb>>

\* store.lock().await of the second block.
FcLockAgain ==
    /\ lk.pc["fetch"] = "lock"
    /\ lk.store = ""
    /\ lk' = LkAt([lk EXCEPT !.store = "fetch"], "fetch", "store")
    /\ UNCHANGED <<dirVars, hsVars, fam, cell, ring, sc, db, dl, sk, slot, mdb>>

\* store_consensus(..)?, the end of the block, and the return.
FcStore(ok) ==
    /\ lk.pc["fetch"] = "store"
    /\ lk' = LkAt(StoreUnlock(lk), "fetch", IF ok THEN "done" ELSE "sleep")
    /\ UNCHANGED <<dirVars, hsVars, fam, cell, ring, sc, db, dl, sk, slot, mdb>>

\* fetch_consensus: the retry delay is over; the next iteration, if any.
FcSleep ==
    /\ lk.pc["fetch"] = "sleep"
    /\ lk' = [LkAt(lk, "fetch", IF lk.attempts + 1 < n_retries_consensus
                                 THEN "begin" ELSE "done")
                EXCEPT !.attempts = @ + 1]
    /\ UNCHANGED <<dirVars, hsVars, fam, cell, ring, sc, db, dl, sk, slot, mdb>>

\* fetch_additional_microdescs: self.netdir().await takes the read lock.
AdRead ==
    /\ lk.pc["add"] = "begin"
    /\ lk.writer = ""
    /\ lk' = LkAt([lk EXCEPT !.readers = @ \cup {"add"}], "add", "netdir")
    /\ UNCHANGED <<dirVars, hsVars, fam, cell, ring, sc, db, dl, sk, slot, mdb>>

\* netdir() returns its clone of the Arc; without a NetDir or a missing
\* microdesc the call returns, else download_mds starts its requests.
AdGotNetdir(go_on) ==
    /\ lk.pc["add"] = "netdir"
    /\ lk' = LkAt(ReadUnlock(lk, "add"), "add", IF go_on THEN "net" ELSE "done")
    /\ UNCHANGED <<dirVars, hsVars, fam, cell, ring, sc, db, dl, sk, slot, mdb>>

\* download_mds: all its requests are over.
AdNet ==
    /\ lk.pc["add"] = "net"
    /\ lk' = LkAt(lk, "add", "lock")
    /\ UNCHANGED <<dirVars, hsVars, fam, cell, ring, sc, db, dl, sk, slot, mdb>>

\* download_mds: store.lock().await.
AdLock ==
    /\ lk.pc["add"] = "lock"
    /\ lk.store = ""
    /\ lk' = LkAt([lk EXCEPT !.store = "add"], "add", "store")
    /\ UNCHANGED <<dirVars, hsVars, fam, cell, ring, sc, db, dl, sk, slot, mdb>>

\* store_microdescs(..)?, the end of the block; with an error or without
\* any microdesc the call returns.
AdStore(go_on) ==
    /\ lk.pc["add"] = "store"
    /\ lk' = LkAt(StoreUnlock(lk), "add", IF go_on THEN "wlock" ELSE "done")
    /\ UNCHANGED <<dirVars, hsVars, fam, cell, ring, sc, db, dl, sk, slot, mdb>>

\* self.netdir.write().await.
AdWrite ==
    /\ lk.pc["add"] = "wlock"
    /\ lk.writer = ""
    /\ lk.readers = {}
    /\ lk' = LkAt([lk EXCEPT !.writer = "add"], "add", "update")
    /\ UNCHANGED <<dirVars, hsVars, fam, cell, ring, sc, db, dl, sk, slot, mdb>>

\* The NetDir is extended and put back; the end of the block.
AdUpdate ==
    /\ lk.pc["add"] = "update"
    /\ lk' = LkAt(WriteUnlock(lk), "add", "done")
    /\ UNCHANGED <<dirVars, hsVars, fam, cell, ring, sc, db, dl, sk, slot, mdb>>

\* DirMgr::netdir of a user: self.netdir.read().await.
UserRead ==
    /\ lk.pc["user"] = "begin"
    /\ lk.writer = ""
    /\ lk' = LkAt([lk EXCEPT !.readers = @ \cup {"user"}], "user", "netdir")
    /\ UNCHANGED <<dirVars, hsVars, fam, cell, ring, sc, db, dl, sk, slot, mdb>>

\* The user has its clone of the Arc.
UserGotNetdir ==
    /\ lk.pc["user"] = "netdir"
    /\ lk' = LkAt(ReadUnlock(lk, "user"), "user", "begin")
    /\ UNCHANGED <<dirVars, hsVars, fam, cell, ring, sc, db, dl, sk, slot, mdb>>

\* A task that is over is started again.
LkAgain(t) ==
    /\ lk.pc[t] = "done"
    /\ lk' = [LkAt(lk, t, "begin") EXCEPT !.attempts = IF t = "fetch" THEN 0 ELSE @]
    /\ UNCHANGED <<dirVars, hsVars, fam, cell, ring, sc, db, dl, sk, slot, mdb>>

InitLocks ==
    /\ DirQuiet
    /\ HsQuiet
    /\ cell = CellIdle
    /\ ring = RingIdle
    /\ sc = ScIdle
    /\ db = DbIdle
    /\ dl = DlIdle
    /\ sk = SkIdle
    /\ slot = SlotIdle
    /\ mdb = MdbIdle
    /\ \E running \in (SUBSET DOMAIN LkIdle.pc) \ {{}} :
          lk = [LkIdle EXCEPT !.pc = [t \in DOMAIN LkIdle.pc |->
                                         IF t \in running THEN "begin" ELSE "idle"]]

NextLocks ==
    \/ FcLock
    \/ \E ok \in BOOLEAN : FcTime(ok)
    \/ \E ok \in BOOLEAN : FcNet(ok)
    \/ FcLockAgain
    \/ \E ok \in BOOLEAN : FcStore(ok)
    \/ FcSleep
    \/ AdRead
    \/ \E go_on \in BOOLEAN : AdGotNetdir(go_on)
    \/ AdNet
    \/ AdLock
    \/ \E go_on \in BOOLEAN : AdStore(go_on)
    \/ AdWrite
    \/ AdUpdate
    \/ UserRead
    \/ UserGotNetdir
    \/ \E t \in {"fetch", "add"} : LkAgain(t)

SpecLocks == InitLocks /\ [][NextLocks]_vars

\* Task t holds a lock.
HoldsLock(t) == lk.store = t \/ lk.writer = t \/ t \in lk.readers

\* C27: a task that is waiting for get_resource or for a retry delay holds
\* neither the store's mutex nor a lock of the NetDir, and whenever a task
\* holds the NetDir's write lock it is in the block that updates the NetDir.
C27_NoLockAcrossNetwork ==
    /\ \A t \in DOMAIN lk.pc : lk.pc[t] \in {"net", "sleep"} => ~HoldsLock(t)
    /\ lk.writer # "" => lk.pc[lk.writer] = "update"
    /\ lk.store # "" => lk.pc[lk.store] \in {"time", "store"}

\* One task is waiting for the network and another sleeps before its retry
\* while the user reads the NetDir.
C27_Witness ==
    /\ lk.pc["fetch"] = "sleep"
    /\ lk.pc["add"] = "net"
    /\ lk.pc["user"] = "netdir"
    /\ "user" \in lk.readers
    /\ lk.attempts > 0


(***************************************************************************)
(* handle_socks_conn and the two tasks it spawns.                          *)
(*   pc      the handler: "handshake", "connect", "reply", then "returned" *)
(*           with Ok or "failed" with an error                             *)
(*   t1, t2  the copy tasks: "unborn", "read" (awaiting its read),         *)
(*           "write" (about to write what it read) or "stopped"            *)
(*   r, w    whether the read half and the write half of the client's      *)
(*           TcpStream are still held; the connection is closed when       *)
(*           neither is                                                    *)
(*   client  "open", or "closed" once the client has closed its side       *)
(*   cbuf    bytes the client has sent and the proxy has not read          *)
(*   tor     the Tor stream: "none", "open" or "ended"                     *)
(*   tbuf    data received on the Tor stream and not read                  *)
(*   up, down  how many reads each task has copied                         *)
(***************************************************************************)
MaxCopied == 2

\* The handler returns with `?': the halves it still owns are dropped.
SkFail == [sk EXCEPT !.pc = "failed", !.r = FALSE, !.w = FALSE]

\* The SOCKS handshake loop.
SkHandshake(ok) ==
    /\ sk.pc = "handshake"
    /\ sk' = IF ok THEN [sk EXCEPT !.pc = "connect", !.cbuf = 0] ELSE SkFail
    /\ UNCHANGED <<dirVars, hsVars, fam, cell, ring, sc, db, dl, lk, slot, mdb>>

\* get_or_launch_exit(..).await?, then begin_stream(..).await?.
SkConnect(ok) ==
    /\ sk.pc = "connect"
    /\ sk' = IF ok THEN [sk EXCEPT !.pc = "reply", !.tor = "open"] ELSE SkFail
    /\ UNCHANGED <<dirVars, hsVars, fam, cell, ring, sc, db, dl, lk, slot, mdb>>

\* The SOCKS reply is written, the Tor stream is split, the two tasks are
\* spawned with the halves moved into them, and the handler returns Ok.
SkReply ==
    /\ sk.pc = "reply"
    /\ sk' = IF sk.client = "open"
             THEN [sk EXCEPT !.pc = "returned", !.t1 = "read", !.t2 = "read"]
             ELSE SkFail
    /\ UNCHANGED <<dirVars, hsVars, fam, cell, ring, sc, db, dl, lk, slot, mdb>>

\* Task 1, r.read(..).await: an error or Ok(0) breaks the loop and the task
\* ends, dropping r and wstream; Ok(n) goes on to write.
T1Read ==
    /\ sk.t1 = "read"
    /\ sk.cbuf > 0 \/ sk.client = "closed"
    /\ sk' = IF sk.cbuf > 0
             THEN [sk EXCEPT !.t1 = "write", !.cbuf = 0]
             ELSE [sk EXCEPT !.t1 = "stopped", !.r = FALSE]
    /\ UNCHANGED <<dirVars, hsVars, fam, cell, ring, sc, db, dl, lk, slot, mdb>>

\* Task 1, wstream.write_bytes(..).await: an error breaks the loop.
T1Write ==
    /\ sk.t1 = "write"
    /\ sk' = IF sk.tor = "open"
             THEN [sk EXCEPT !.t1 = "read", !.up = IF @ < MaxCopied THEN @ + 1 ELSE @]
             ELSE [sk EXCEPT !.t1 = "stopped", !.r = FALSE]
    /\ UNCHANGED <<dirVars, hsVars, fam, cell, ring, sc, db, dl, lk, slot, mdb>>

\* Task 2, rstream.read_bytes(..).await: an error breaks the loop and the
\* task ends, dropping rstream and w.
T2Read ==
    /\ sk.t2 = "read"
    /\ sk.tbuf > 0 \/ sk.tor = "ended"
    /\ sk' = IF sk.tbuf > 0
             THEN [sk EXCEPT !.t2 = "write", !.tbuf = 0]
             ELSE [sk EXCEPT !.t2 = "stopped", !.w = FALSE]
    /\ UNCHANGED <<dirVars, hsVars, fam, cell, ring, sc, db, dl, lk, slot, mdb>>

\* Task 2, w.write(..).await: an error breaks the loop.
T2Write ==
    /\ sk.t2 = "write"
    /\ sk' = IF sk.client = "open"
             THEN [sk EXCEPT !.t2 = "read", !.down = IF @ < MaxCopied THEN @ + 1 ELSE @]
             ELSE [sk EXCEPT !.t2 = "stopped", !.w = FALSE]
    /\ UNCHANGED <<dirVars, hsVars, fam, cell, ring, sc, db, dl, lk, slot, mdb>>

\* The client sends bytes.
ClientSends ==
    /\ sk.client = "open"
    /\ sk.pc # "failed"
    /\ sk.cbuf = 0
    /\ sk.up < MaxCopied
    /\ sk' = [sk EXCEPT !.cbuf = 1]
    /\ UNCHANGED <<dirVars, hsVars, fam, cell, ring, sc, db, dl, lk, slot, mdb>>

\* The client closes its side of the connection.
ClientCloses ==
    /\ sk.client = "open"
    /\ sk' = [sk EXCEPT !.client = "closed"]
    /\ UNCHANGED <<dirVars, hsVars, fam, cell, ring, sc, db, dl, lk, slot, mdb>>

\* Data arrives on the Tor stream.
TorSends ==
    /\ sk.tor = "open"
    /\ sk.tbuf = 0
    /\ sk.down < MaxCopied
    /\ sk' = [sk EXCEPT !.tbuf = 1]
    /\ UNCHANGED <<dirVars, hsVars, fam, cell, ring, sc, db, dl, lk, slot, mdb>>

\* The Tor stream ends or fails.
TorEnds ==
    /\ sk.tor = "open"
    /\ sk' = [sk EXCEPT !.tor = "ended"]
    /\ UNCHANGED <<dirVars, hsVars, fam, cell, ring, sc, db, dl, lk, slot, mdb>>

InitSocks ==
    /\ DirQuiet
    /\ HsQuiet
    /\ cell = CellIdle
    /\ ring = RingIdle
    /\ sc = ScIdle
    /\ db = DbIdle
    /\ dl = DlIdle
    /\ lk = LkIdle
    /\ slot = SlotIdle
    /\ mdb = MdbIdle
    /\ \E first \in 0..1 :
          sk = [SkIdle EXCEPT !.pc = "handshake", !.r = TRUE, !.w = TRUE, !.cbuf = first]

NextSocks ==
    \/ \E ok \in BOOLEAN : SkHandshake(ok)
    \/ \E ok \in BOOLEAN : SkConnect(ok)
    \/ SkReply
    \/ T1Read
    \/ T1Write
    \/ T2Read
    \/ T2Write
    \/ ClientSends
    \/ ClientCloses
    \/ TorSends
    \/ TorEnds

\* The spawned tasks are run whenever they can go on; the client and the
\* Tor stream owe nothing.
FairSpecSocks ==
    /\ InitSocks
    /\ [][NextSocks]_vars
    /\ WF_vars(T1Read \/ T1Write)
    /\ WF_vars(T2Read \/ T2Write)

\* C28: once one of the two copy tasks has stopped, the other stops too and
\* both halves of the client's TCP connection get closed.
C28_BothHalvesClosed ==
    (sk.t1 = "stopped" \/ sk.t2 = "stopped")
        ~> (sk.t1 = "stopped" /\ sk.t2 = "stopped" /\ ~sk.r /\ ~sk.w)


(***************************************************************************)
(* UnvalidatedDir.certs across fetch_certs_once, under SpecDirMgr.         *)
(***************************************************************************)
\* fetch_directory has just run one fetch_certs_once.
FetchCertsOnceReturned == fd.pc = "fetch_certs" /\ fd'.attempts = fd.attempts + 1

\* C29: fetch_certs_once keeps every certificate the UnvalidatedDir held,
\* and the certificates it adds are among those it asked for.
C29_FetchCertsOnceFrame ==
    [][FetchCertsOnceReturned =>
          /\ fd.certs \subseteq fd'.certs
          /\ (fd'.certs \ fd.certs) \subseteq MissingCerts(fd.doc, fd.certs)]_vars

\* C30: the certificates of the UnvalidatedDir are all of configured
\* authorities, at every point after load, fetch_certs_once and
\* missing_certs, and so when advance checks the consensus with them.
C30_CertsOfConfiguredAuthorities == fd.certs \subseteq Authorities

\* A response carried the certificate of an unconfigured authority (it went
\* to the cache with the others), and the consensus is about to be checked.
C30_Witness ==
    /\ fd.pc = "advance"
    /\ fd.sub = "certs"
    /\ fd.certs = Authorities
    /\ "x" \in store.certs


(***************************************************************************)
(* The pending flag of the cached consensus across fetch_directory, under  *)
(* SpecDirMgr.                                                             *)
(***************************************************************************)
\* fetch_directory has just run one fetch_mds_once.
FetchMdsOnceReturned == fd.pc = "fetch_mds" /\ fd'.attempts = fd.attempts + 1

\* fetch_directory has just written the shared NetDir.
FetchDirInstalled == fd.pc = "install" /\ fd'.wrote

\* C31: a fetch_mds_once that turns the cached consensus from pending to
\* usable does so with a PartialDir that has enough paths, and the NetDir
\* fetch_directory installs is of a consensus that is not pending in the
\* cache.
C31_PendingFollowsBootstrap ==
    [][/\ (FetchMdsOnceReturned /\ store.cons[fd.doc] = "pending"
              /\ store'.cons[fd.doc] = "usable")
            => HaveEnoughPaths(fd.doc, fd'.mds)
       /\ FetchDirInstalled => store.cons[fd.doc] # "pending"]_vars


(***************************************************************************)
(* DirMgr.netdir, the RwLock<Option<Arc<NetDir>>>, with the three          *)
(* functions that write it and a user calling DirMgr::netdir, interleaved  *)
(* at their awaits.  A NetDir is named by its consensus.                   *)
(*   val       the slot: <<>> for None, <<d>> for Some                     *)
(*   old       fetch_additional_microdescs: what w.take() gave it          *)
(*   writer    the task holding the write guard, "" for none               *)
(*   readers   the tasks holding a read guard                              *)
(*   was_some  history: the slot has held a NetDir                         *)
(*   read, ret its last netdir() call: "None" or "Some", and the NetDir    *)
(*   after_some  history: that call read the slot after it held a NetDir   *)
(***************************************************************************)
\* A read that does not wait for the writer.
ReadLockFreeAlways(s) == TRUE

\* self.netdir.read().await is granted.
ReadLockFree(s) == s.writer = ""

\* self.netdir.write().await is granted.
WriteLockFree(s) == s.writer = "" /\ s.readers = {}

SlotAt(s, t, pc) == [s EXCEPT !.pc[t] = pc]

\* load_directory or fetch_directory (t) has its NetDir and takes the write lock.
SlotInstallLock(t) ==
    /\ t \in {"load", "fetch"}
    /\ slot.pc[t] = "idle"
    /\ WriteLockFree(slot)
    /\ slot' = SlotAt([slot EXCEPT !.writer = t], t, "locked")
    /\ UNCHANGED <<dirVars, hsVars, fam, cell, ring, sc, db, dl, lk, sk, mdb>>

\* *w = Some(Arc::new(nd)), and the end of the block.
SlotInstall(t, d) ==
    /\ t \in {"load", "fetch"}
    /\ slot.pc[t] = "locked"
    /\ slot' = SlotAt([slot EXCEPT !.val = <<d>>, !.writer = "", !.was_some = TRUE],
                      t, "idle")
    /\ UNCHANGED <<dirVars, hsVars, fam, cell, ring, sc, db, dl, lk, sk, mdb>>

\* fetch_additional_microdescs has its microdescs and takes the write lock.
SlotExtendLock ==
    /\ slot.pc["add"] = "idle"
    /\ WriteLockFree(slot)
    /\ slot' = SlotAt([slot EXCEPT !.writer = "add"], "add", "locked")
    /\ UNCHANGED <<dirVars, hsVars, fam, cell, ring, sc, db, dl, lk, sk, mdb>>

\* w.take().
SlotTake ==
    /\ slot.pc["add"] = "locked"
    /\ slot' = SlotAt([slot EXCEPT !.old = slot.val, !.val = <<>>], "add", "taken")
    /\ UNCHANGED <<dirVars, hsVars, fam, cell, ring, sc, db, dl, lk, sk, mdb>>

\* *w = Some(old_netdir.extend(..)), or the return with nothing taken; the
\* guard is dropped.
SlotPut ==
    /\ slot.pc["add"] = "taken"
    /\ slot' = SlotAt([slot EXCEPT !.val = slot.old, !.old = <<>>, !.writer = ""],
                      "add", "idle")
    /\ UNCHANGED <<dirVars, hsVars, fam, cell, ring, sc, db, dl, lk, sk, mdb>>

\* DirMgr::netdir: the read lock is granted.
SlotReadLock ==
    /\ slot.pc["user"] = "idle"
    /\ ReadLockFree(slot)
    /\ slot' = SlotAt([slot EXCEPT !.readers = @ \cup {"user"}], "user", "locked")
    /\ UNCHANGED <<dirVars, hsVars, fam, cell, ring, sc, db, dl, lk, sk, mdb>>

\* .as_ref().map(Arc::clone), and the guard is dropped.
SlotRead ==
    /\ slot.pc["user"] = "locked"
    /\ slot' = SlotAt([slot EXCEPT !.readers = @ \ {"user"},
                                   !.ret = slot.val,
                                   !.read = IF slot.val = <<>> THEN "None" ELSE "Some",
                                   !.after_some = slot.was_some],
                      "user", "idle")
    /\ UNCHANGED <<dirVars, hsVars, fam, cell, ring, sc, db, dl, lk, sk, mdb>>

InitSlot ==
    /\ DirQuiet
    /\ HsQuiet
    /\ cell = CellIdle
    /\ ring = RingIdle
    /\ sc = ScIdle
    /\ db = DbIdle
    /\ dl = DlIdle
    /\ lk = LkIdle
    /\ sk = SkIdle
    /\ mdb = MdbIdle
    /\ \E running \in {r \in SUBSET DOMAIN SlotIdle.pc : "user" \in r} :
          slot = [SlotIdle EXCEPT !.pc = [t \in DOMAIN SlotIdle.pc |->
                                             IF t \in running THEN "idle" ELSE "off"]]

NextSlot ==
    \/ \E t \in {"load", "fetch"} : SlotInstallLock(t)
    \/ \E t \in {"load", "fetch"}, d \in Docs : SlotInstall(t, d)
    \/ SlotExtendLock
    \/ SlotTake
    \/ SlotPut
    \/ SlotReadLock
    \/ SlotRead

SpecSlot == InitSlot /\ [][NextSlot]_vars

\* C32: a netdir() call that reads the slot after the slot has held a NetDir
\* returns Some.
C32_SomeStaysSome == slot.after_some => slot.read = "Some"

\* The user's call returned Some although fetch_additional_microdescs holds
\* the write lock and has taken the NetDir out of the slot.
C32_Witness ==
    /\ slot.after_some
    /\ slot.read = "Some"
    /\ slot.pc["add"] = "taken"
    /\ slot.val = <<>>
    /\ slot.old # <<>>

\* C33: in every state of a TaskSchedule at most one kind of firing is
\* pending: instant_fire is set only while no sleep future is stored.
C33_OneKindOfFiring == sc.s.instant_fire => sc.s.sleep = <<>>

\* The schedule has been polled, which cleared instant_fire, and an instant
\* firing is pending again with no sleep stored.
C33_Witness ==
    /\ sc.polls >= 1
    /\ ~sc.fresh
    /\ sc.s.instant_fire
    /\ sc.s.sleep = <<>>
    /\ sc.clock > 0

\* An iteration of the launcher ends (fire_in is called) with a Fire, sent
\* since the iteration began, still in the channel.
IterationEndsWithFire ==
    /\ ln.pc \in {"loop", "building"}
    /\ ln'.pc = "waiting"
    /\ sched.rx # <<>>

\* C34: a fire() sent while the launcher is in the middle of an iteration is
\* not lost: after the iteration ends with fire_in, the next poll of the
\* schedule yields at once.
C34_FireDuringIterationKept == [][IterationEndsWithFire => PollYields(sched')]_vars

\* take_or_launch_stub_circuit fired the launcher while an iteration was under
\* way; the iteration has ended with the 30-second sleep pending and the Fire
\* still in the channel.
C34_Witness ==
    /\ tk.fired
    /\ tk.at \in {"loop", "building"}
    /\ ln.pc = "waiting"
    /\ ln.done
    /\ sched.rx # <<>>
    /\ sched.sleep = "pending"
    /\ ~sched.instant_fire

\* take_or_launch_stub_circuit has just returned BadApiUsage.
TakeReturnedBadApiUsage == tk' # tk /\ tk'.ret = "bad_api_usage"

InitHsRace ==
    /\ DirQuiet
    /\ PureQuiet
    /\ pool \in BagsOver({[path |-> {"c", "e"}, closing |-> FALSE]}, MaxInitPool)
    /\ hs_nd = [listed |-> {"c", "e", "f", "a"}, timely |-> TRUE]
    /\ ev = NoEvent
    /\ launcher_handle = TRUE
    /\ sched = NewSchedule
    /\ ln = Started
    /\ tk = NoTake
    /\ ex = ExIdle

NextHsRace ==
    \/ (PoolLen(pool) <= MaxInitPool /\ LauncherPoll)
    \/ LauncherLoop
    \/ \E circ \in {NoCirc, [path |-> {"c", "e"}, closing |-> FALSE],
                    [path |-> {"a", "c"}, closing |-> FALSE]} : LauncherBuildDone(circ)
    \/ SleepElapses
    \/ \E listed \in NetDirs, timely \in BOOLEAN : NetDirChange(listed, timely)
    \/ RemoveUnusableCircuits

SpecHsRace == InitHsRace /\ [][NextHsRace]_vars

\* remove_unusable_circuits has evicted for the provider's present NetDir: it
\* handled the last directory change, with a timely NetDir.
EvictedForNetDir == ev.handled /\ ~ev.pending /\ ev.timely

MaxMdTime == 5

ThreeMonths == 3

MdDigests == DOMAIN MdbIdle.rows

Later(x, y) == IF x >= y THEN x ELSE y

\* INSERT_MD: INSERT OR REPLACE INTO Microdescs (sha256_digest, last_listed, contents).
INSERT_MD(rows, d, when) == [rows EXCEPT ![d] = <<when>>]

\* UPDATE_MD_LISTED: SET last_listed = max(last_listed, ?) WHERE sha256_digest = ?.
UPDATE_MD_LISTED(rows, d, when) ==
    IF rows[d] = <<>> THEN rows ELSE [rows EXCEPT ![d] = <<Later(rows[d][1], when)>>]

\* A statement run for every digest of the input.
RECURSIVE ForEach(_, _, _, _)
ForEach(Stmt(_, _, _), rows, input, when) ==
    IF input = {} THEN rows
    ELSE LET d == CHOOSE x \in input : TRUE
         IN  ForEach(Stmt, Stmt(rows, d, when), input \ {d}, when)

\* DROP_OLD_MICRODESCS: the rows it deletes at time t.
OldMicrodescs(rows, t) ==
    {d \in MdDigests : rows[d] # <<>> /\ rows[d][1] < t - ThreeMonths}

\* The history of listings after a call that says input is listed at when.
Listed(m, rows, input, when) ==
    [d \in MdDigests |->
        IF rows[d] = <<>> THEN <<>>
        ELSE IF d \notin input THEN m.listed[d]
        ELSE IF m.listed[d] = <<>> THEN <<when>>
        ELSE <<Later(m.listed[d][1], when)>>]

\* store_microdescs(input, when); the transaction commits.
MdStore(input, when) ==
    /\ LET rows == ForEach(INSERT_MD, mdb.rows, input, when) IN
       mdb' = [mdb EXCEPT !.rows = rows, !.listed = Listed(mdb, rows, input, when),
                          !.op = "store_microdescs", !.dropped = {}]
    /\ UNCHANGED <<dirVars, hsVars, fam, cell, ring, sc, db, dl, lk, sk, slot>>

\* update_microdescs_listed(input, when); the transaction commits.
MdUpdateListed(input, when) ==
    /\ LET rows == ForEach(UPDATE_MD_LISTED, mdb.rows, input, when) IN
       mdb' = [mdb EXCEPT !.rows = rows, !.listed = Listed(mdb, rows, input, when),
                          !.op = "update_microdescs_listed", !.dropped = {}]
    /\ UNCHANGED <<dirVars, hsVars, fam, cell, ring, sc, db, dl, lk, sk, slot>>

\* expire_all: DROP_OLD_MICRODESCS.
MdExpireAll ==
    /\ LET old == OldMicrodescs(mdb.rows, mdb.now) IN
       mdb' = [mdb EXCEPT
                 !.rows = [d \in MdDigests |-> IF d \in old THEN <<>> ELSE @[d]],
                 !.listed = [d \in MdDigests |-> IF d \in old THEN <<>> ELSE @[d]],
                 !.op = "expire_all", !.dropped = old]
    /\ UNCHANGED <<dirVars, hsVars, fam, cell, ring, sc, db, dl, lk, sk, slot>>

\* Time passes.
MdTick ==
    /\ mdb.now < MaxMdTime
    /\ mdb' = [mdb EXCEPT !.now = @ + 1, !.op = "", !.dropped = {}]
    /\ UNCHANGED <<dirVars, hsVars, fam, cell, ring, sc, db, dl, lk, sk, slot>>

InitMicrodescs ==
    /\ DirQuiet
    /\ HsQuiet
    /\ cell = CellIdle
    /\ ring = RingIdle
    /\ sc = ScIdle
    /\ db = DbIdle
    /\ dl = DlIdle
    /\ lk = LkIdle
    /\ sk = SkIdle
    /\ slot = SlotIdle
    /\ mdb = MdbIdle

NextMicrodescs ==
    \/ \E input \in (SUBSET MdDigests) \ {{}}, when \in 0..MaxMdTime : MdStore(input, when)
    \/ \E input \in (SUBSET MdDigests) \ {{}}, when \in 0..MaxMdTime :
          MdUpdateListed(input, when)
    \/ MdExpireAll
    \/ MdTick

SpecMicrodescs == InitMicrodescs /\ [][NextMicrodescs]_vars

\* C37: across store_microdescs and update_microdescs_listed calls the
\* last_listed time of a stored microdescriptor never decreases, so that
\* expire_all drops a microdescriptor only if it has not been listed for the
\* expiry interval.
C37_LastListedNeverDecreases ==
    [][\A d \in MdDigests :
          /\ (mdb.rows[d] # <<>> /\ mdb'.rows[d] # <<>>) => mdb'.rows[d][1] >= mdb.rows[d][1]
          /\ (d \in mdb'.dropped /\ mdb'.op = "expire_all") =>
                mdb.listed[d][1] < mdb.now - ThreeMonths]_vars

\* The consensuses extract_srvs is tried on: those of the ring specification
\* and the same with a voting period of two hours.
SrvConsensuses ==
    Consensuses \cup
    {[c EXCEPT !.lifetime.fresh_until = c.lifetime.valid_after + 2 * 3600] : c \in Consensuses}

\* extract_srvs(consensus) is called.
ExtractSrvs ==
    /\ ring.pc = "new"
    /\ ring' = [ring EXCEPT !.pc = "extracted", !.rings = extract_srvs(ring.consensus)]
    /\ UNCHANGED <<dirVars, hsVars, fam, lateVars, cell, sc>>

InitSrvs ==
    /\ DirQuiet
    /\ HsQuiet
    /\ cell = CellIdle
    /\ sc = ScIdle
    /\ LateQuiet
    /\ \E c \in SrvConsensuses :
          ring = [pc |-> "new", consensus |-> c, hsdir_interval |-> 1440, rings |-> <<>>]

SpecSrvs == InitSrvs /\ [][ExtractSrvs]_vars

\* Two ranges begin..end have an instant in common.
Overlap(x, y) == x.begin < x.end /\ y.begin < y.end /\ x.begin < y.end /\ y.begin < x.end

\* C38: the ranges extract_srvs gives the current and the previous SRV never
\* overlap, whatever the voting period and with or without SRV timestamps.
C38_SrvRangesDisjoint ==
    ring.pc = "extracted" =>
        \A i, j \in 1..Len(ring.rings) : i # j => ~Overlap(ring.rings[i], ring.rings[j])

=============================================================================
